---------------------------- MODULE Spec2Model ----------------------------
(***************************************************************************)
(* BDRAM Scanner: the preprocessor (list-detector.js, class Preprocessor), *)
(* the chain walker (chain-walker), the list detector (list-detector.js)   *)
(* and the forward scanner (forward-scanner, coordinator).                 *)
(*                                                                         *)
(* UNITS.  TLC's integers are 32-bit signed, so an unsigned 32-bit         *)
(* address such as 0x80000000 cannot be written in bytes.  Every address,  *)
(* pointer value, mask and offset of this module is therefore counted in   *)
(* 4-byte WORDS: the byte quantity divided by 4 (0x80000000 is 2^29, the   *)
(* offset 0x3C is 15, the interval [-44, 4] is [-11, 1]).  Addresses and   *)
(* values of the data model are 4-byte aligned, so nothing is lost.  A JS  *)
(* number stored into an Int32Array wraps to signed 32 bits; in words that *)
(* is ToInt32W.                                                            *)
(***************************************************************************)
EXTENDS Integers, Sequences, FiniteSets, TLC

VARIABLES
    systemId,      \* Preprocessor.systemId
    batchCount,    \* Preprocessor.batchCount
    nodeMap,       \* Preprocessor.nodeMap, in insertion order: <<[addr, slots]>>
    lastOp,        \* the call that produced this state, with its input
    collapsed,     \* <<the output of the last collapse()>>, or <<>>
    batchesIn,     \* observation: the parsed batch absorbed at each batch index
    sc,            \* the BDRAMScanner instance (its fields)
    pc,            \* position of processBatches: the stage it is in
    loc,           \* local variables of the stage that is running
    ret,           \* the objects processBatches resolved to, one per call
    foundTargetPaths,  \* observation: every targetPath a DFS has pushed into
                       \* its local targetPaths array during this run
    encoderInput       \* observation: the arrays handed to generateAchievements
                       \* during this run, in call order

preVars == <<systemId, batchCount, nodeMap, lastOp, collapsed, batchesIn>>

scanVars == <<sc, pc, loc, ret, foundTargetPaths, encoderInput>>

vars == <<systemId, batchCount, nodeMap, lastOp, collapsed, batchesIn, sc, pc, loc, ret,
          foundTargetPaths, encoderInput>>

(***************************************************************************)
(* 32-bit arithmetic, in words.                                            *)
(***************************************************************************)
Two29 == 2^29
Two30 == 2^30

\* Storing a JS number into an Int32Array (ToInt32).
ToInt32W(w) == LET m == w % Two30 IN IF m >= Two29 THEN m - Two30 ELSE m

\* x >>> 0 (ToUint32).
ToUint32W(x) == x % Two30

RECURSIVE BitAnd(_, _)
BitAnd(a, b) ==
    IF a = 0 \/ b = 0 THEN 0
    ELSE (a % 2) * (b % 2) + 2 * BitAnd(a \div 2, b \div 2)

\* (val & mask) >>> 0 on JS numbers.
AndMask(val, mask) == BitAnd(ToUint32W(val), ToUint32W(mask))

(***************************************************************************)
(* Config.systems and Config.defaults (core.js).  A mask is <<>> for null  *)
(* and <<m>> otherwise.                                                    *)
(***************************************************************************)
systems ==
    [ n64 |-> [ mask |-> <<>>,        min |-> 2^29, max |-> 2^29 + 2^21 - 1,
                rangeMode |-> "half" ],
      ps1 |-> [ mask |-> <<2^19 - 1>>, min |-> 2^29, max |-> 2^29 + 2^19 - 1,
                rangeMode |-> "half" ],
      ps2 |-> [ mask |-> <<>>,        min |-> 2^18, max |-> 2^23 - 1,
                rangeMode |-> "quarter" ],
      psp |-> [ mask |-> <<2^23 - 1>>, min |-> 2^25, max |-> 2^25 + 2^23 - 1,
                rangeMode |-> "quarter" ],
      gba |-> [ mask |-> <<>>,        min |-> 2^23, max |-> 2^23 + 2^16 - 1,
                rangeMode |-> "full" ],
      ds  |-> [ mask |-> <<>>,        min |-> 2^23, max |-> 2^23 + 2^20 - 1,
                rangeMode |-> "quater" ],
      dsi |-> [ mask |-> <<>>,        min |-> 2^23, max |-> 2^23 + 2^22 - 1,
                rangeMode |-> "quarter" ],
      gamecube |->
              [ mask |-> <<2^26 + 2^25 - 1>>,
                min |-> 2^29, max |-> 2^29 + 2^22 + 2^21 - 1,
                rangeMode |-> "quarter" ],
      wii |-> [ mask |-> <<2^26 + 2^24 - 1>>,
                memoryRange |->
                    << [min |-> 2^29,        max |-> 2^29 + 2^22 + 2^21 - 1],
                       [min |-> 2^29 + 2^26, max |-> 2^29 + 2^26 + 2^24 - 1] >>,
                rangeMode |-> "wii" ],
      dreamcast |->
              [ mask |-> <<>>,
                min |-> 2^29 + 3 * 2^24, max |-> 2^29 + 3 * 2^24 + 2^22 - 1,
                rangeMode |-> "half" ] ]

maxFiles == 10

getSystemMask(sys) == systems[sys].mask

\* A parser that also accepts the first address of the range as a value.
validateCsvRowFromMin(row, sys) ==
    ~(row.value < systems[sys].min \/ row.value > systems[sys].max)

\* CoreUtils.validateCsvRow: the range rule on an aligned value
\* (value < min + 1 || value > max rejects).
validateCsvRow(row, sys) ==
    ~(row.value < systems[sys].min + 1 \/ row.value > systems[sys].max)

RECURSIVE SelectRows(_, _)
SelectRows(rows, sys) ==
    IF rows = <<>> THEN <<>>
    ELSE IF validateCsvRow(Head(rows), sys)
         THEN <<Head(rows)>> \o SelectRows(Tail(rows), sys)
         ELSE SelectRows(Tail(rows), sys)

\* CoreUtils.parseCSV: { addresses, values } of the rows that validate.
parseCSV(rows, sys) ==
    LET kept == SelectRows(rows, sys)
    IN  [ addresses |-> [i \in 1..Len(kept) |-> kept[i].address],
          values    |-> [i \in 1..Len(kept) |-> kept[i].value] ]

(***************************************************************************)
(* Preprocessor (list-detector.js).                                        *)
(***************************************************************************)
ZeroSlots == [b \in 1..maxFiles |-> 0]

MapHas(m, a) == \E i \in 1..Len(m) : m[i].addr = a
MapIdx(m, a) == CHOOSE i \in 1..Len(m) : m[i].addr = a
MapGet(m, a) == m[MapIdx(m, a)].slots

\* valueFreq.get(v)
ValueFreq(values, v) == Cardinality({i \in 1..Len(values) : values[i] = v})

VTableLimit == 10

\* An anchor filter that already fires at 10 occurrences.
VtableValuesFromLimit(values) ==
    {values[i] : i \in {j \in 1..Len(values) : ValueFreq(values, values[j]) >= VTableLimit}}

\* vtableValues: values occurring more than 10 times in this batch
VtableValues(values) ==
    {values[i] : i \in {j \in 1..Len(values) : ValueFreq(values, values[j]) > VTableLimit}}

ProximityLow  == -11
ProximityHigh == 1

\* maskedVal = (mask !== null) ? (val & mask) >>> 0 : val
MaskedVal(val, mask) == IF mask # <<>> THEN AndMask(val, mask[1]) ELSE val

\* The interval of the comment at list-detector.js:394, open below.
CloseProximityOpenLow(addr, val, mask) ==
    LET diff == addr - MaskedVal(val, mask)
    IN  diff > ProximityLow /\ diff <= ProximityHigh

\* diff >= -44 && diff <= 4
CloseProximity(addr, val, mask) ==
    LET diff == addr - MaskedVal(val, mask)
    IN  diff >= ProximityLow /\ diff <= ProximityHigh

\* the value written into slots[batchIndex] of an Int32Array
StoredValue(val, mask) == ToInt32W(val)

\* nodeMap.set / nodeMap.get(addr)[batchIndex] = val
StoreNode(m, addr, batchIndex, val, mask) ==
    IF MapHas(m, addr)
    THEN [m EXCEPT ![MapIdx(m, addr)].slots[batchIndex + 1] = StoredValue(val, mask)]
    ELSE Append(m, [addr  |-> addr,
                    slots |-> [ZeroSlots EXCEPT ![batchIndex + 1] = StoredValue(val, mask)]])

\* the row loop of addBatch, from row i on
RECURSIVE AddRows(_, _, _, _, _, _)
AddRows(m, parsed, i, batchIndex, mask, vt) ==
    IF i > Len(parsed.addresses) THEN m
    ELSE LET addr == parsed.addresses[i]
             val  == parsed.values[i]
             next == IF val \in vt THEN m
                     ELSE IF CloseProximity(addr, val, mask) THEN m
                     ELSE StoreNode(m, addr, batchIndex, val, mask)
         IN  AddRows(next, parsed, i + 1, batchIndex, mask, vt)

\* Preprocessor.addBatch: the node map after the call
addBatchMap(m, parsed, batchIndex, sys) ==
    AddRows(m, parsed, 1, batchIndex, getSystemMask(sys), VtableValues(parsed.values))

\* A removal that empties the slot and moves nothing down.
ShiftSlotsClearOnly(slots, batchIndex) == [slots EXCEPT ![batchIndex + 1] = 0]

\* the shift of removeBatch on one slot array
ShiftSlots(slots, batchIndex) ==
    [b \in 1..maxFiles |->
        IF b - 1 < batchIndex THEN slots[b]
        ELSE IF b - 1 < maxFiles - 1 THEN slots[b + 1]
        ELSE 0]

AnyNonZero(slots, n) == \E b \in 1..n : slots[b] # 0

\* A removeBatch that never prunes.
PrunedNever(slots, newCount) == FALSE

\* whether removeBatch prunes a shifted slot array
Pruned(slots, newCount) == ~AnyNonZero(slots, newCount)

RECURSIVE RemoveRows(_, _, _)
RemoveRows(m, batchIndex, newCount) ==
    IF m = <<>> THEN <<>>
    ELSE LET s == ShiftSlots(Head(m).slots, batchIndex)
             rest == RemoveRows(Tail(m), batchIndex, newCount)
         IN  IF Pruned(s, newCount) THEN rest
             ELSE <<[addr |-> Head(m).addr, slots |-> s]>> \o rest

\* Preprocessor._classify
classify(slots, n) ==
    IF \E b \in 1..n : slots[b] = 0 THEN "dynamicNode"
    ELSE IF \A b \in 1..n : slots[b] = slots[1] THEN "staticStatic"
    ELSE "staticNode"

CountClass(m, n, cls) ==
    Cardinality({i \in 1..Len(m) : classify(m[i].slots, n) = cls})

\* Preprocessor.getCounts: the three totals
getCounts(m, n) ==
    [ batchCount    |-> n,
      totalNodes    |-> Len(m),
      staticStatics |-> CountClass(m, n, "staticStatic"),
      staticNodes   |-> CountClass(m, n, "staticNode"),
      dynamicNodes  |-> CountClass(m, n, "dynamicNode") ]

\* collapse: apply mask to every non-zero slot of 0..n-1
MaskSlots(slots, n, mask) ==
    [b \in 1..maxFiles |->
        IF mask # <<>> /\ b <= n /\ slots[b] # 0
        THEN ToInt32W(AndMask(slots[b], mask[1]))
        ELSE slots[b]]

MaskedMap(m, n, mask) ==
    [i \in 1..Len(m) |-> [addr |-> m[i].addr, slots |-> MaskSlots(m[i].slots, n, mask)]]

RECURSIVE SelectClass(_, _, _)
SelectClass(m, n, cls) ==
    IF m = <<>> THEN <<>>
    ELSE IF classify(Head(m).slots, n) = cls
         THEN <<Head(m)>> \o SelectClass(Tail(m), n, cls)
         ELSE SelectClass(Tail(m), n, cls)

FirstNonZero(slots, n) ==
    IF AnyNonZero(slots, n)
    THEN slots[CHOOSE b \in 1..n : slots[b] # 0 /\ \A c \in 1..(b - 1) : slots[c] = 0]
    ELSE 0

\* A typed array pre-sized from getCounts(): writes past its length are dropped,
\* unwritten elements stay 0.
Sized(seq, len, zero) ==
    [i \in 1..len |-> IF i <= Len(seq) THEN seq[i] ELSE zero]

\* Preprocessor.collapse: the returned object
collapse(m, n, sys) ==
    LET counts == getCounts(m, n)
        mm     == MaskedMap(m, n, getSystemMask(sys))
        ss     == SelectClass(mm, n, "staticStatic")
        sn     == SelectClass(mm, n, "staticNode")
        dyn    == SelectClass(mm, n, "dynamicNode")
        vals(e) == [b \in 1..n |-> e.slots[b]]
    IN  [ systemId   |-> sys,
          batchCount |-> n,
          routed     |-> [ staticStatics |-> Len(ss), staticNodes |-> Len(sn),
                           dynamicNodes  |-> Len(dyn) ],
          staticStatics |->
              [ addresses |-> Sized([i \in 1..Len(ss) |-> ToInt32W(ss[i].addr)],
                                    counts.staticStatics, 0),
                values    |-> Sized([i \in 1..Len(ss) |-> FirstNonZero(ss[i].slots, n)],
                                    counts.staticStatics, 0) ],
          staticNodes |->
              [ addresses |-> Sized([i \in 1..Len(sn) |-> ToInt32W(sn[i].addr)],
                                    counts.staticNodes, 0),
                values    |-> [i \in 1..Len(sn) |-> vals(sn[i])] ],
          dynamicNodes |->
              [ addresses |-> Sized([i \in 1..Len(dyn) |-> ToInt32W(dyn[i].addr)],
                                    counts.dynamicNodes, 0),
                values    |-> [i \in 1..Len(dyn) |-> vals(dyn[i])] ] ]

(***************************************************************************)
(* Chain walker (part_004).  A JS Set or Map is a sequence in insertion    *)
(* order; a value accessor getVal is a sequence vm of [addr, value] and    *)
(* returns <<>> for undefined.                                             *)
(***************************************************************************)
SeqHas(s, a) == \E i \in 1..Len(s) : s[i] = a
SeqSet(s)    == {s[i] : i \in 1..Len(s)}

\* Set.delete of every member of S
SeqDelete(s, S) == SelectSeq(s, LAMBDA x : x \notin S)

\* Set.add of the elements of xs, in order
RECURSIVE SeqAddAll(_, _)
SeqAddAll(s, xs) ==
    IF xs = <<>> THEN s
    ELSE SeqAddAll(IF SeqHas(s, Head(xs)) THEN s ELSE Append(s, Head(xs)), Tail(xs))

ValHas(vm, a) == \E i \in 1..Len(vm) : vm[i].addr = a
ValOf(vm, a)  == vm[CHOOSE i \in 1..Len(vm) : vm[i].addr = a].value
getVal(vm, a) == IF ValHas(vm, a) THEN <<ValOf(vm, a)>> ELSE <<>>

\* the pointed-to set: children val + offset that are in the pool
pointedTo(pool, offset, vm) ==
    {c \in SeqSet(pool) :
        \E a \in SeqSet(pool) : getVal(vm, a) # <<>> /\ getVal(vm, a)[1] + offset = c}

\* A bridging loop that counts the node it lands on among the ghosts.
newGhostCountWithLanding(pool, expected, offset, maxGhostNodes) ==
    LET G == {g \in 0..(maxGhostNodes - 1) : SeqHas(pool, expected + (g + 1) * offset)}
    IN  IF G = {} THEN 0 ELSE (CHOOSE g \in G : \A h \in G : g <= h) + 2

\* the bridging loop: g + 1 for the first g < maxGhostNodes whose
\* afterBridge = expected + (g + 1) * offset is in the pool; 0 when none
newGhostCount(pool, expected, offset, maxGhostNodes) ==
    LET G == {g \in 0..(maxGhostNodes - 1) : SeqHas(pool, expected + (g + 1) * offset)}
    IN  IF G = {} THEN 0 ELSE (CHOOSE g \in G : \A h \in G : g <= h) + 1

\* chainLoop: st = [current, nodes, ghosts, totalGhosts, hitTarget]
RECURSIVE chainLoop(_, _, _, _, _)
chainLoop(pool, offset, vm, opts, st) ==
    IF SeqHas(st.nodes, st.current) THEN st
    ELSE IF opts.targetPool # <<>> /\ st.current \in opts.targetPool[1]
    THEN [st EXCEPT !.hitTarget = TRUE]
    ELSE IF ~SeqHas(pool, st.current) THEN st
    ELSE IF getVal(vm, st.current) = <<>> THEN st
    ELSE LET val      == getVal(vm, st.current)[1]
             pushed   == [st EXCEPT !.nodes = Append(@, st.current)]
             expected == val + offset
             found    == newGhostCount(pool, expected, offset, opts.maxGhostNodes)
         IN  IF SeqHas(pool, expected)
             THEN chainLoop(pool, offset, vm, opts, [pushed EXCEPT !.current = expected])
             ELSE IF opts.maxGhostNodes = 0 THEN pushed
             ELSE IF found = 0 THEN pushed
             ELSE IF st.totalGhosts + found > opts.maxGhostNodes THEN pushed
             ELSE chainLoop(pool, offset, vm, opts,
                     [pushed EXCEPT
                         !.ghosts = @ \o [k \in 1..found |-> expected + (k - 1) * offset],
                         !.totalGhosts = @ + found,
                         !.current = expected + found * offset])

\* the loop over start addresses, from pool[i] on
RECURSIVE headLoop(_, _, _, _, _, _, _)
headLoop(pool, i, offset, vm, opts, processed, out) ==
    IF i > Len(pool) THEN out
    ELSE IF \/ pool[i] \in processed
            \/ pool[i] \in pointedTo(pool, offset, vm)
            \/ getVal(vm, pool[i]) = <<>>
    THEN headLoop(pool, i + 1, offset, vm, opts, processed, out)
    ELSE LET w == chainLoop(pool, offset, vm, opts,
                     [current |-> pool[i], nodes |-> <<>>, ghosts |-> <<>>,
                      totalGhosts |-> 0, hitTarget |-> FALSE])
             emitted ==
                 IF w.hitTarget /\ Len(w.nodes) >= 1
                 THEN [out EXCEPT !.entryPoints =
                          Append(@, [nodes |-> w.nodes, ghosts |-> w.ghosts])]
                 ELSE IF Len(w.nodes) >= opts.minChainLength
                 THEN [out EXCEPT !.chains =
                          Append(@, [nodes |-> w.nodes, ghosts |-> w.ghosts,
                                     isHead |-> TRUE])]
                 ELSE out
         IN  headLoop(pool, i + 1, offset, vm, opts,
                      processed \cup SeqSet(w.nodes), emitted)

\* walkChainsAtOffset: { chains, entryPoints }
walkChainsAtOffset(pool, offset, vm, opts) ==
    headLoop(pool, 1, offset, vm, opts, {}, [chains |-> <<>>, entryPoints |-> <<>>])

\* nodeToChains.get(node): indexes of the chains that contain node
nodeToChains(chains, node) ==
    SelectSeq([k \in 1..Len(chains) |-> k], LAMBDA k : SeqHas(chains[k].nodes, node))

\* the conflicts Set of chain i, from its node n on
RECURSIVE conflictsOf(_, _, _, _)
conflictsOf(chains, i, n, acc) ==
    IF n > Len(chains[i].nodes) THEN acc
    ELSE conflictsOf(chains, i, n + 1,
             SeqAddAll(acc, SelectSeq(nodeToChains(chains, chains[i].nodes[n]),
                                      LAMBDA k : k # i)))

\* the comparator of group.sort: longest first, then smallest root
SortsBefore(chains, a, b) ==
    \/ Len(chains[a].nodes) > Len(chains[b].nodes)
    \/ /\ Len(chains[a].nodes) = Len(chains[b].nodes)
       /\ chains[a].nodes[1] < chains[b].nodes[1]

\* Array.prototype.sort (stable) of a group of chain indexes
RECURSIVE sortGroup(_, _)
sortGroup(chains, g) ==
    IF g = <<>> THEN <<>>
    ELSE LET k == CHOOSE j \in 1..Len(g) :
                     /\ \A m \in 1..Len(g) : ~SortsBefore(chains, g[m], g[j])
                     /\ \A m \in 1..(j - 1) : SortsBefore(chains, g[j], g[m])
         IN  <<g[k]>> \o sortGroup(chains, [m \in 1..(Len(g) - 1) |->
                                              IF m < k THEN g[m] ELSE g[m + 1]])

\* the rank loop: r = [processed, resolved]
RECURSIVE emitGroup(_, _, _, _)
emitGroup(chains, group, rank, r) ==
    IF rank > Len(group) THEN r
    ELSE emitGroup(chains, group, rank + 1,
            IF group[rank] \in r.processed THEN r
            ELSE [processed |-> r.processed \cup {group[rank]},
                  resolved  |-> Append(r.resolved,
                                   [chains[group[rank]] EXCEPT !.isHead = (rank = 1)])])

RECURSIVE resolveLoop(_, _, _)
resolveLoop(chains, i, r) ==
    IF i > Len(chains) THEN r.resolved
    ELSE IF i \in r.processed THEN resolveLoop(chains, i + 1, r)
    ELSE resolveLoop(chains, i + 1,
            emitGroup(chains, sortGroup(chains, <<i>> \o conflictsOf(chains, i, 1, <<>>)),
                      1, r))

\* resolveChainConflicts
resolveChainConflicts(chains) ==
    IF Len(chains) = 0 THEN <<>>
    ELSE IF Len(chains) = 1 THEN chains
    ELSE resolveLoop(chains, 1, [processed |-> {}, resolved |-> <<>>])

(***************************************************************************)
(* BDRAMScanner (part_003): constructor, ingest and classification.  The   *)
(* achievement counters are not part of the model; generator is <<>> for   *)
(* null and <<g>> when the generator g is attached; staticOutput and       *)
(* streamedOutput are the sequences of the lines appended.  maxBreadth is  *)
(* the number the hex string denotes, in bytes.                            *)
(***************************************************************************)
NewScanner ==
    [ systemId |-> "n64",
      minChainLength |-> 15, maxGhostNodes |-> 10,
      maxBreadth |-> 4092, maxDepth |-> 12,
      earlyOutBasePointer |-> FALSE, earlyOutTarget |-> FALSE,
      skipStickyPointers |-> TRUE, enabledRanges |-> {0},
      batches |-> <<>>,
      staticStaticNodes |-> <<>>,      \* Map addr -> value: <<[addr, value]>>
      staticNodes |-> <<>>,            \* Map addr -> number[]: <<[addr, value]>>
      targetNodes |-> <<>>,            \* one Set per batch
      basePointers |-> <<>>,           \* Map addr -> number[]: <<[address, values]>>
      injectedTargets |-> {},
      structures |-> <<>>, entryPoints |-> <<>>, targetPaths |-> <<>>,
      staticStructureCount |-> 0, dynamicStructureCount |-> 0, entryPointCount |-> 0,
      staticOutput |-> <<>>, streamedOutput |-> <<>>,
      processedBaseAddrs |-> {}, processedBaseAddrCount |-> 0,
      generator |-> <<>> ]

\* indexes i of a classified array whose value for batch b (1-based) is not 0
PresentIn(arr, b) ==
    SelectSeq([i \in 1..Len(arr.addresses) |-> i], LAMBDA i : arr.values[i][b] # 0)

\* _ingestPreprocessorOutput: this.batches
ingestPreprocessorOutput(output) ==
    [b \in 1..output.batchCount |->
        LET ss  == output.staticStatics
            sn  == output.staticNodes
            dyn == output.dynamicNodes
            snI == PresentIn(sn, b)
            dyI == PresentIn(dyn, b)
        IN  [ addresses |-> ss.addresses
                              \o [k \in 1..Len(snI) |-> sn.addresses[snI[k]]]
                              \o [k \in 1..Len(dyI) |-> dyn.addresses[dyI[k]]],
              values    |-> ss.values
                              \o [k \in 1..Len(snI) |-> sn.values[snI[k]][b]]
                              \o [k \in 1..Len(dyI) |-> dyn.values[dyI[k]][b]] ]]

\* the last index of addr in a batch (a later write to a Map or slot wins)
LastIndex(batch, addr) ==
    CHOOSE i \in 1..Len(batch.addresses) :
        /\ batch.addresses[i] = addr
        /\ \A j \in (i + 1)..Len(batch.addresses) : batch.addresses[j] # addr

\* classifyNodes, first pass: the keys of allNodes, in insertion order
RECURSIVE allNodesKeys(_, _, _)
allNodesKeys(batches, b, acc) ==
    IF b > Len(batches) THEN acc
    ELSE allNodesKeys(batches, b + 1, SeqAddAll(acc, batches[b].addresses))

\* allNodes.get(addr): one slot per batch, 0 for a slot never written
allNodesVals(batches, addr) ==
    [b \in 1..Len(batches) |->
        IF SeqHas(batches[b].addresses, addr)
        THEN batches[b].values[LastIndex(batches[b], addr)]
        ELSE 0]

\* classifyNodes: the scanner with staticNodes, staticStaticNodes, targetNodes
classifyNodes(s) ==
    LET keys    == allNodesKeys(s.batches, 1, <<>>)
        vals(a) == allNodesVals(s.batches, a)
        static  == SelectSeq(keys, LAMBDA a : \A b \in 1..Len(s.batches) : vals(a)[b] # 0)
        same(a) == \A b \in 1..Len(s.batches) : vals(a)[b] = vals(a)[1]
        ssKeys  == SelectSeq(static, LAMBDA a : same(a))
        snKeys  == SelectSeq(static, LAMBDA a : ~same(a))
    IN  [s EXCEPT
            !.staticStaticNodes = [k \in 1..Len(ssKeys) |->
                                     [addr |-> ssKeys[k], value |-> vals(ssKeys[k])[1]]],
            !.staticNodes       = [k \in 1..Len(snKeys) |->
                                     [addr |-> snKeys[k], value |-> vals(snKeys[k])]],
            !.targetNodes       = [b \in 1..Len(s.batches) |-> s.injectedTargets]]

(***************************************************************************)
(* List detector (list-detector.js).                                       *)
(***************************************************************************)
OFFSET_MIN  == 0
OFFSET_MAX  == 15        \* 0x3C bytes
OFFSET_STEP == 1         \* 4 bytes

MapKeys(m) == [i \in 1..Len(m) |-> m[i].addr]

\* Array.prototype.sort((a, b) => a - b) of a set of distinct numbers
RECURSIVE SortAsc(_)
SortAsc(S) ==
    IF S = {} THEN <<>>
    ELSE LET m == CHOOSE x \in S : \A y \in S : x <= y
         IN  <<m>> \o SortAsc(S \ {m})

\* _dominantStride: the most frequent gap, the first one seen on a tie
dominantStride(nodes) ==
    IF Len(nodes) < 2 THEN 1
    ELSE LET gap(i)  == nodes[i + 1] - nodes[i]
             G       == 1..(Len(nodes) - 1)
             freq(i) == Cardinality({j \in G : gap(j) = gap(i)})
             first(i) == \A j \in 1..(i - 1) : gap(j) # gap(i)
             best    == CHOOSE i \in G :
                            /\ first(i)
                            /\ \A j \in G : freq(j) <= freq(i)
                            /\ \A j \in 1..(i - 1) : freq(j) < freq(i)
         IN  gap(best)

\* A consumption that leaves the ghosts out.
allNodesValidOnly(chain) == chain.nodes

\* allNodes = [...chain.nodes, ...ghosts]
allNodes(chain) == chain.nodes \o chain.ghosts

\* the static_list record pushed for a winning chain
staticListRecord(chain, structId, offset) ==
    [ id |-> structId, type |-> "static_list", root |-> chain.nodes[1],
      nodeCount |-> Len(chain.nodes), validCount |-> Len(chain.nodes),
      ghostCount |-> Len(chain.ghosts), stride |-> dominantStride(chain.nodes),
      addresses |-> chain.nodes, ghosts |-> chain.ghosts,
      static |-> TRUE, buildOffset |-> offset ]

\* the loop over resolved chains of detectStaticLists, from chain k on;
\* st = [sc, pool, structId]
RECURSIVE recordStaticChains(_, _, _, _)
recordStaticChains(resolved, k, offset, st) ==
    IF k > Len(resolved) THEN st
    ELSE LET chain == resolved[k]
         IN  IF ~chain.isHead \/ Len(chain.nodes) < st.sc.minChainLength
             THEN recordStaticChains(resolved, k + 1, offset, st)
             ELSE recordStaticChains(resolved, k + 1, offset,
                    [ sc |-> [st.sc EXCEPT
                                !.structures = Append(@, staticListRecord(chain, st.structId, offset)),
                                !.targetNodes = [b \in 1..Len(st.sc.batches) |->
                                                   @[b] \cup SeqSet(allNodes(chain))],
                                !.staticStaticNodes =
                                    SelectSeq(@, LAMBDA e : e.addr \notin SeqSet(allNodes(chain)))],
                      pool |-> SeqDelete(st.pool, SeqSet(allNodes(chain))),
                      structId |-> st.structId + 1 ])

\* one pass of the offset loop of detectStaticLists
staticPass(st, offset) ==
    LET walked == walkChainsAtOffset(st.pool, offset, st.sc.staticStaticNodes,
                      [ minChainLength |-> st.sc.minChainLength,
                        maxGhostNodes  |-> st.sc.maxGhostNodes,
                        targetPool     |-> <<>> ])
        resolved == resolveChainConflicts(walked.chains)
        after    == recordStaticChains(resolved, 1, offset, st)
    IN  [ sc |-> after.sc, pool |-> after.pool, structId |-> after.structId,
          chains |-> walked.chains, resolved |-> resolved ]

(***************************************************************************)
(* Achievement generator (part_000).  An achievement is the record         *)
(* { id, logic, title, description, isTarget, type }; the texts are kept   *)
(* as the numbers and words they are formatted from.                       *)
(***************************************************************************)
\* systemConfig.use24Bit of the catalogue
use24Bit(sys) == sys \in {"n64", "gba", "ds", "dsi", "dreamcast"}

\* new AchievementGenerator(): systemId 'n64', no targets, the id counters
NewGenerator ==
    [ systemId |-> "n64", targetAddresses |-> {},
      staticId |-> 100000, targetId |-> 1000, regularId |-> 10000 ]

\* setTargetAddresses: targets.filter(t => t !== null && t !== 0)
setTargetAddresses(gen, targets) == [gen EXCEPT !.targetAddresses = targets \ {0}]

\* updateSystem
updateSystem(gen, sys) == [gen EXCEPT !.systemId = sys]

\* getSizePrefix
getSizePrefix(gen) ==
    IF gen.systemId \in {"gamecube", "wii"} THEN "0xG"
    ELSE IF use24Bit(gen.systemId) THEN "0xW"
    ELSE "0xX"

\* baseAddr of generateAchievements: <<>> for null
baseAddrOf(x) ==
    IF "type" \notin DOMAIN x THEN <<>>
    ELSE IF x.type = "static_list" THEN <<x.addresses[1]>>
    ELSE IF x.type \in {"dynamic_list", "entry_point"} THEN <<x.root>>
    ELSE <<>>

\* the keys of basePointerGroups, in insertion order
groupKeys(structures) ==
    LET based == SelectSeq(structures, LAMBDA x : baseAddrOf(x) # <<>>)
    IN  SeqAddAll(<<>>, [k \in 1..Len(based) |-> baseAddrOf(based[k])[1]])

\* one list of a group: the records of the type that share the base
groupList(structures, baseAddr, type) ==
    SelectSeq(structures, LAMBDA x : baseAddrOf(x) = <<baseAddr>> /\ x.type = type)

\* ep.path && ep.path.length > 0
hasOffsets(x) == "path" \in DOMAIN x /\ Len(x.path) > 0

\* checkTargetCoverageForGroup
checkTargetCoverageForGroup(gen, items) ==
    \E k \in 1..Len(items) : SeqSet(items[k].addresses) \cap gen.targetAddresses # {}

\* checkTargetCoverage
checkTargetCoverage(gen, x) ==
    (SeqSet(x.addresses) \cup SeqSet(x.ghosts)) \cap gen.targetAddresses # {}

\* generateStaticListAchievement
generateStaticListAchievement(x) ==
    LET allAddresses == SortAsc(SeqSet(x.addresses) \cup SeqSet(x.ghosts))
    IN  [ id |-> 0, type |-> "static_list", isTarget |-> FALSE,
          logic |-> [ prefix |-> "0xX", root |-> x.root, mask |-> <<>>,
                      conditions |-> <<allAddresses>> ],
          title |-> [ kind |-> "Static List", of |-> x.id, count |-> x.ghostCount,
                      alt |-> "", target |-> FALSE ],
          description |-> <<x.validCount, x.root, allAddresses[Len(allAddresses)]>> ]

\* generateNonStaticAchievement for type 'base_pointer_with_alts'
generateBasePointerWithAlts(gen, baseAddr, items, altType) ==
    [ id |-> 0, type |-> "base_pointer_with_alts", isTarget |-> FALSE,
      logic |-> [ prefix |-> getSizePrefix(gen), root |-> baseAddr,
                  mask |-> getSystemMask(gen.systemId),
                  conditions |-> [k \in 1..Len(items) |-> items[k].path] ],
      title |-> [ kind |-> "Base Pointer", of |-> baseAddr, count |-> Len(items),
                  alt |-> altType, target |-> FALSE ],
      description |-> <<Len(items), baseAddr>> ]

\* the achievements of one base pointer group, without ids
groupAchievements(gen, structures, baseAddr) ==
    LET eps     == SelectSeq(groupList(structures, baseAddr, "entry_point"), hasOffsets)
        dyns    == SelectSeq(groupList(structures, baseAddr, "dynamic_list"), hasOffsets)
        statics == groupList(structures, baseAddr, "static_list")
        \* achievement.isTarget = true; achievement.title += ' TARGET DETECTED'
        mark(a, covers) == [a EXCEPT !.isTarget = covers, !.title.target = covers]
    IN  (IF Len(eps) = 0 THEN <<>>
         ELSE <<mark(generateBasePointerWithAlts(gen, baseAddr, eps, "entry points"),
                     checkTargetCoverageForGroup(gen, eps))>>)
        \o
        (IF Len(dyns) = 0 THEN <<>>
         ELSE <<mark(generateBasePointerWithAlts(gen, baseAddr, dyns, "dynamic structures"),
                     checkTargetCoverageForGroup(gen, dyns))>>)
        \o
        [k \in 1..Len(statics) |->
            mark(generateStaticListAchievement(statics[k]),
                 checkTargetCoverage(gen, statics[k]))]

RECURSIVE allGroupAchievements(_, _, _)
allGroupAchievements(gen, structures, keys) ==
    IF keys = <<>> THEN <<>>
    ELSE groupAchievements(gen, structures, Head(keys))
            \o allGroupAchievements(gen, structures, Tail(keys))

\* ach.title.includes('Static List')
isStaticTitle(a) == a.title.kind = "Static List"

\* generateAchievements: the achievements with their ids, targets first,
\* and the generator with its counters advanced
generateAchievements(gen, structures) ==
    LET all     == allGroupAchievements(gen, structures, groupKeys(structures))
        targets == SelectSeq(all, LAMBDA a : a.isTarget)
        others  == SelectSeq(all, LAMBDA a : ~a.isTarget)
        before(k, static) ==
            Cardinality({j \in 1..(k - 1) : isStaticTitle(others[j]) = static})
        statics == Cardinality({j \in 1..Len(others) : isStaticTitle(others[j])})
    IN  [ achievements |->
              [k \in 1..Len(targets) |-> [targets[k] EXCEPT !.id = gen.targetId + k - 1]]
              \o
              [k \in 1..Len(others) |->
                  [others[k] EXCEPT !.id =
                      IF isStaticTitle(others[k])
                      THEN gen.staticId + before(k, TRUE)
                      ELSE gen.regularId + before(k, FALSE)]],
          gen |-> [gen EXCEPT !.targetId  = @ + Len(targets),
                              !.staticId  = @ + statics,
                              !.regularId = @ + Len(others) - statics] ]

\* the lines appended to staticOutput / streamedOutput:
\* `${ach.id || ''}:"${ach.logic}":${ach.title}:${ach.description}::::...`
outputLines(achievements) ==
    [k \in 1..Len(achievements) |->
        [ id |-> achievements[k].id, logic |-> achievements[k].logic,
          title |-> achievements[k].title,
          description |-> achievements[k].description ]]

IsStaticList(s) == s.type = "static_list"

\* the static lists detectStaticLists hands to the generator, <<>> when it
\* makes no call
staticStreamInput(s) ==
    IF s.generator = <<>> THEN <<>> ELSE SelectSeq(s.structures, IsStaticList)

\* detectStaticLists after the offset loop: streaming and the sticky pointers
finishStaticLists(s) ==
    LET statics  == staticStreamInput(s)
        made     == generateAchievements(s.generator[1], statics)
        streamed == IF Len(statics) > 0
                    THEN [s EXCEPT !.staticStructureCount = Len(statics),
                                   !.generator = <<made.gen>>,
                                   !.staticOutput = @ \o outputLines(made.achievements),
                                   !.structures = SelectSeq(@, LAMBDA x : ~IsStaticList(x))]
                    ELSE s
    IN  IF s.skipStickyPointers
        THEN [streamed EXCEPT !.staticStaticNodes = <<>>]
        ELSE [streamed EXCEPT
                 !.staticNodes = @ \o [k \in 1..Len(s.staticStaticNodes) |->
                                        [ addr  |-> s.staticStaticNodes[k].addr,
                                          value |-> [b \in 1..Len(s.batches) |->
                                                       s.staticStaticNodes[k].value] ]],
                 !.staticStaticNodes = <<>>]

\* detectDynamicLists: the working sets batchNodes[b]
batchNodes(s) ==
    [b \in 1..Len(s.batches) |->
        SelectSeq(MapKeys(s.staticNodes), LAMBDA a : a \notin s.targetNodes[b])]

\* getVal of the dynamic pass for batch b (1-based): vals[b]
batchVals(s, b) ==
    [i \in 1..Len(s.staticNodes) |->
        [addr |-> s.staticNodes[i].addr, value |-> s.staticNodes[i].value[b]]]

\* the loop over resolved chains of detectDynamicLists, from chain k on;
\* st = [sc, working]; b is 1-based, batchIdx is b - 1
RECURSIVE recordDynamicChains(_, _, _, _, _)
recordDynamicChains(resolved, k, offset, b, st) ==
    IF k > Len(resolved) THEN st
    ELSE LET chain == resolved[k]
         IN  recordDynamicChains(resolved, k + 1, offset, b,
               IF chain.isHead /\ Len(chain.nodes) >= st.sc.minChainLength
               THEN [ sc |-> [st.sc EXCEPT
                               !.structures = Append(@,
                                   [ id |-> Len(st.sc.structures), type |-> "dynamic_list",
                                     root |-> chain.nodes[1], nodeCount |-> Len(chain.nodes),
                                     stride |-> offset, addresses |-> chain.nodes,
                                     static |-> FALSE, buildOffset |-> offset,
                                     batchIdx |-> b - 1 ]),
                               !.targetNodes[b] = @ \cup SeqSet(chain.nodes)],
                      working |-> SeqDelete(st.working, SeqSet(chain.nodes)) ]
               ELSE IF ~chain.isHead
               THEN [st EXCEPT !.working = SeqDelete(@, SeqSet(chain.nodes))]
               ELSE st)

\* the entry-point record of the dynamic pass
entryPointRecord(ep, offset, b) ==
    [ root |-> ep.nodes[1], nodeCount |-> Len(ep.nodes), addresses |-> ep.nodes,
      buildOffset |-> offset, path |-> <<offset>>, batchIdx |-> b - 1, claimed |-> FALSE ]

\* the loop over the walker's entryPoints, from entry k on
RECURSIVE recordEntryPoints(_, _, _, _, _)
recordEntryPoints(eps, k, offset, b, st) ==
    IF k > Len(eps) THEN st
    ELSE recordEntryPoints(eps, k + 1, offset, b,
            [ sc |-> [st.sc EXCEPT !.entryPoints =
                                       Append(@, entryPointRecord(eps[k], offset, b))],
              working |-> SeqDelete(st.working, SeqSet(eps[k].nodes)) ])

\* one pass of detectDynamicLists: offset, batch b (1-based), working set
dynamicPass(s, working, offset, b) ==
    LET walked == walkChainsAtOffset(working, offset, batchVals(s, b),
                      [ minChainLength |-> s.minChainLength,
                        maxGhostNodes  |-> 0,
                        targetPool     |-> <<s.targetNodes[b]>> ])
        resolved == resolveChainConflicts(walked.chains)
        chained  == recordDynamicChains(resolved, 1, offset, b,
                                        [sc |-> s, working |-> working])
        after    == recordEntryPoints(walked.entryPoints, 1, offset, b, chained)
    IN  [ sc |-> after.sc, working |-> after.working,
          chains |-> walked.chains, entryPoints |-> walked.entryPoints,
          resolved |-> resolved ]

\* the counts detectDynamicLists leaves
countDynamic(s) ==
    [s EXCEPT !.dynamicStructureCount =
                  Len(SelectSeq(s.structures, LAMBDA x : x.type = "dynamic_list")),
              !.entryPointCount = Len(s.entryPoints)]

(***************************************************************************)
(* Scan ranges (core.js, part_003).                                        *)
(***************************************************************************)
\* floorAlign = addr & ~3: the operand goes through ToInt32
floorAlign(addr) == ToInt32W(addr)

\* the aligned address at num/den of the way through [min, max]
splitAt(min, max, num, den) == floorAlign(min + ((max - min + 1) * num) \div den)

\* Config.getRanges: <<[min, max]>>, one per range
getRanges(sys) ==
    LET cfg == systems[sys]
    IN  CASE cfg.rangeMode = "full" ->
               << [min |-> cfg.min, max |-> cfg.max] >>
          [] cfg.rangeMode = "half" ->
               LET mid == splitAt(cfg.min, cfg.max, 1, 2)
               IN  << [min |-> cfg.min, max |-> mid - 1],
                      [min |-> mid,     max |-> cfg.max] >>
          [] cfg.rangeMode = "quarter" ->
               LET q1 == splitAt(cfg.min, cfg.max, 1, 4)
                   q2 == splitAt(cfg.min, cfg.max, 2, 4)
                   q3 == splitAt(cfg.min, cfg.max, 3, 4)
               IN  << [min |-> cfg.min, max |-> q1 - 1],
                      [min |-> q1,      max |-> q2 - 1],
                      [min |-> q2,      max |-> q3 - 1],
                      [min |-> q3,      max |-> cfg.max] >>
          [] cfg.rangeMode = "wii" ->
               LET mem1 == cfg.memoryRange[1]
                   mem2 == cfg.memoryRange[2]
                   mem1Mid == splitAt(mem1.min, mem1.max, 1, 2)
                   mem2Mid == splitAt(mem2.min, mem2.max, 1, 2)
               IN  << [min |-> mem1.min, max |-> mem1Mid - 1],
                      [min |-> mem1Mid,  max |-> mem1.max],
                      [min |-> mem2.min, max |-> mem2Mid - 1],
                      [min |-> mem2Mid,  max |-> mem2.max] >>
          [] OTHER -> <<>>

\* Config.getAddressRangeIndex: the 0-based index of the first range holding
\* the address, -1 when none does
getAddressRangeIndex(sys, address) ==
    LET ranges == getRanges(sys)
        hit(i) == address >= ranges[i].min /\ address <= ranges[i].max
    IN  IF \E i \in 1..Len(ranges) : hit(i)
        THEN (CHOOSE i \in 1..Len(ranges) : hit(i) /\ \A j \in 1..(i - 1) : ~hit(j)) - 1
        ELSE -1

\* BDRAMScanner.isInScanRange
isInScanRange(s, value) ==
    LET allRanges == getRanges(s.systemId)
    IN  IF Len(allRanges) = 0 THEN TRUE
        ELSE IF s.enabledRanges = {} THEN TRUE
        ELSE \E i \in 1..Len(allRanges) :
                /\ (i - 1) \in s.enabledRanges
                /\ value >= allRanges[i].min
                /\ value <= allRanges[i].max

(***************************************************************************)
(* Forward scanner (part_001).  A 32-bit bitmap word is the set of its set *)
(* bits, a subset of 0..31.                                                *)
(***************************************************************************)
Bits == 0..31

\* batchIndexes[b].has(addr) and sc.batches[b].values[batchIndexes[b].get(addr)]
batchIndexHas(s, b, addr) == SeqHas(s.batches[b].addresses, addr)
batchValue(s, b, addr)    == s.batches[b].values[LastIndex(s.batches[b], addr)]

\* buildBasePointerSet: sc.basePointers
buildBasePointerSet(s) ==
    LET keys == SelectSeq(MapKeys(s.staticNodes), LAMBDA a :
                    /\ ~\E b \in 1..Len(s.targetNodes) : a \in s.targetNodes[b]
                    /\ \A b \in 1..Len(s.batches) : batchIndexHas(s, b, a))
    IN  s.basePointers \o
            [k \in 1..Len(keys) |->
                [ address |-> keys[k],
                  values  |-> [b \in 1..Len(s.batches) |-> batchValue(s, b, keys[k])] ]]

\* parseInt(sc.maxBreadth, 16) & 0xFFFFFC, in words
maxBreadthOf(s) == (s.maxBreadth % 2^24) \div 4

ChunkWords == 32                \* chunkSize 0x80 bytes, one bitmap slot
BUDGET_INT == 20971520          \* (80 * 1024 * 1024) / 4

Max2(a, b) == IF a > b THEN a ELSE b
Min2(a, b) == IF a < b THEN a ELSE b

\* buildTraversalBitmaps: { store, slots, bytes }; store is <<>> for null and
\* <<the keys of the store>> otherwise, bytes is counted in words
buildTraversalBitmaps(s) ==
    LET B  == Len(s.batches)
        bp == {s.basePointers[i].address : i \in 1..Len(s.basePointers)}
        traversalAddrs == UNION {SeqSet(s.batches[b].addresses) : b \in 1..B} \ bp
        N  == Cardinality(traversalAddrs)
        totalSlots   == (maxBreadthOf(s) + ChunkWords - 1) \div ChunkWords
        slotsPerNode == Max2(1, BUDGET_INT \div (N * B))
        usedSlots    == Min2(slotsPerNode, totalSlots)
    IN  IF N = 0 THEN [store |-> <<>>, slots |-> 0, bytes |-> 0]
        ELSE [store |-> <<traversalAddrs>>, slots |-> usedSlots,
              bytes |-> usedSlots * ChunkWords]

\* store.get(addr)[b * usedSlots + slot] as built by buildTraversalBitmaps:
\* bit N is set iff value_b(addr) + (slot * 32 + N) * 4 is in batchIndexes[b]
precompWord(s, addr, b, slot) ==
    IF ~batchIndexHas(s, b, addr) THEN {}
    ELSE {bit \in Bits :
            batchIndexHas(s, b, batchValue(s, b, addr) + slot * ChunkWords + bit)}

\* the on-the-fly word of batch b for its own current address
onTheFlyWord(s, addr, b, chunkStart) ==
    IF ~batchIndexHas(s, b, addr) THEN {}
    ELSE {bit \in Bits : batchIndexHas(s, b, batchValue(s, b, addr) + chunkStart + bit)}

\* _buildStructAddrMap / _buildEpAddrMap: the entry of the last record that
\* lists addr, <<>> when none
structAddrMapGet(structures, addr) ==
    LET lists(i) == \/ SeqHas(structures[i].addresses, addr)
                    \/ /\ "ghosts" \in DOMAIN structures[i]
                       /\ SeqHas(structures[i].ghosts, addr)
        I == {i \in 1..Len(structures) : lists(i)}
    IN  IF I = {} THEN <<>>
        ELSE LET i == CHOOSE x \in I : \A y \in I : y <= x
             IN  <<[type |-> "structure", id |-> structures[i].id, rec |-> structures[i]]>>

epAddrMapGet(eps, addr) ==
    LET I == {i \in 1..Len(eps) : SeqHas(eps[i].addresses, addr)}
    IN  IF I = {} THEN <<>>
        ELSE LET i == CHOOSE x \in I : \A y \in I : y <= x
             IN  <<[type |-> "entry_point", id |-> eps[i].root, rec |-> eps[i]]>>

\* `0x${n.toString(16).toUpperCase()}`: prefix, sign and magnitude
Hex(n) == [prefix |-> "0x", minus |-> n < 0, digits |-> IF n < 0 THEN -n ELSE n]

\* pathStr: per step i the '+' repeated i times and the hex offset
pathStr(path) == [i \in 1..Len(path) |-> [plus |-> i, offset |-> Hex(path[i])]]

\* the chunk { start, end } of scanSingleBasePointer
chunkEndOf(s, start) == Min2(start + ChunkWords - 1, maxBreadthOf(s))

\* the initial DFS state of scanBasePointerDepth
initialDfs(base) == [addresses |-> base.values, depth |-> 1, path |-> <<>>]

\* the hit of one current address: structAddrMap.get || epAddrMap.get || null
hitOf(lookups, addr) ==
    IF structAddrMapGet(lookups.structures, addr) # <<>>
    THEN structAddrMapGet(lookups.structures, addr)
    ELSE epAddrMapGet(lookups.entryPoints, addr)

\* whether the fast path is taken for firstAddr in this chunk
usePrecomp(ctx, firstAddr, chunkStart) ==
    /\ ctx.store # <<>>
    /\ firstAddr \in ctx.store[1]
    /\ chunkStart < ctx.bytes
    /\ chunkStart \div ChunkWords < ctx.slots

\* combinedBitmap of one step
combinedBitmap(s, ctx, addrs, chunkStart) ==
    IF usePrecomp(ctx, addrs[1], chunkStart)
    THEN {bit \in Bits : \A b \in 1..Len(s.batches) :
             bit \in precompWord(s, addrs[1], b, chunkStart \div ChunkWords)}
    ELSE {bit \in Bits : \A b \in 1..Len(s.batches) :
             bit \in onTheFlyWord(s, addrs[b], b, chunkStart)}

\* chosenOffset: <<the smallest offset of the bitmap within the chunk>> or <<>>
chosenOffsetOf(bitmap, chunkStart, chunkEnd) ==
    LET C == {chunkStart + bit : bit \in bitmap} \cap (chunkStart..chunkEnd)
    IN  IF C = {} THEN <<>> ELSE <<CHOOSE c \in C : \A d \in C : c <= d>>

\* the detection-phase entry point of batch b (1-based) that lists targetAddr
firstEpWith(s, b, targetAddr) ==
    LET I == {i \in 1..Len(s.entryPoints) :
                 /\ "batchIdx" \in DOMAIN s.entryPoints[i]
                 /\ s.entryPoints[i].batchIdx = b - 1
                 /\ SeqHas(s.entryPoints[i].addresses, targetAddr)}
    IN  IF I = {} THEN <<>>
        ELSE <<s.entryPoints[CHOOSE i \in I : \A j \in I : i <= j]>>

\* majority voting: [targetCount, votes], votes being the buildOffsets voted
\* for, one per voting batch in batch order
majorityVote(s, addrs, chosen) ==
    LET B == Len(s.batches)
        indexed(b) == batchIndexHas(s, b, addrs[b])
        tgt(b)     == batchValue(s, b, addrs[b]) + chosen
        inPool(b)  == indexed(b) /\ tgt(b) \in s.targetNodes[b]
        viaEp(b)   == indexed(b) /\ ~inPool(b) /\ firstEpWith(s, b, tgt(b)) # <<>>
        voters     == SelectSeq([b \in 1..B |-> b], viaEp)
    IN  [ targetCount |-> Cardinality({b \in 1..B : inPool(b) \/ viaEp(b)}),
          votes |-> [k \in 1..Len(voters) |->
                        firstEpWith(s, voters[k], tgt(voters[k]))[1].buildOffset] ]

VoteCount(votes, o) == Cardinality({k \in 1..Len(votes) : votes[k] = o})

\* hasMajority && offsetsAgree
majorityWins(s, vote) ==
    /\ 100 * vote.targetCount > 66 * Len(s.batches)
    /\ Len(vote.votes) > 0 =>
          \E k \in 1..Len(vote.votes) :
              2 * VoteCount(vote.votes, vote.votes[k]) > Len(vote.votes)

\* winningOffset: the first buildOffset with the most votes, else chosenOffset
winningOffset(vote, chosen) ==
    IF Len(vote.votes) = 0 THEN chosen
    ELSE vote.votes[CHOOSE k \in 1..Len(vote.votes) :
            /\ \A j \in 1..Len(vote.votes) :
                  VoteCount(vote.votes, vote.votes[j]) <= VoteCount(vote.votes, vote.votes[k])
            /\ \A j \in 1..(k - 1) :
                  VoteCount(vote.votes, vote.votes[j]) < VoteCount(vote.votes, vote.votes[k])]

\* the advance of the DFS state
advance(s, st, chosen) ==
    [ addresses |-> [b \in 1..Len(s.batches) |->
                        IF batchIndexHas(s, b, st.addresses[b])
                        THEN batchValue(s, b, st.addresses[b]) + chosen
                        ELSE 0],
      depth |-> st.depth + 1,
      path  |-> Append(st.path, chosen) ]

\* one iteration of the while loop of scanBasePointerDepth on the locals
\* L = [base, chunkStart, state, hitStructures, hitEntryPoints, targetPaths,
\*      broke, step]; step names the branch the iteration took
dfsIteration(s, lookups, ctx, L) ==
    LET B         == Len(s.batches)
        st        == L.state
        firstAddr == st.addresses[1]
        chunkEnd  == chunkEndOf(s, L.chunkStart)
        hits      == [b \in 1..B |-> hitOf(lookups, st.addresses[b])]
        validHits == SelectSeq(hits, LAMBDA h : h # <<>>)
        bitmap    == combinedBitmap(s, ctx, st.addresses, L.chunkStart)
        chosen    == chosenOffsetOf(bitmap, L.chunkStart, chunkEnd)
        vote      == majorityVote(s, st.addresses, chosen[1])
        stop(kind) == [L EXCEPT !.broke = TRUE, !.step = [kind |-> kind]]
    IN  IF /\ firstAddr \in s.injectedTargets
           /\ \A b \in 1..B : st.addresses[b] \in s.injectedTargets
        THEN [stop("target") EXCEPT !.targetPaths =
                 Append(@, [ basePointer   |-> Hex(L.base.address),
                             path          |-> pathStr(st.path),
                             targetAddress |-> Hex(firstAddr) ])]
        ELSE IF /\ Len(validHits) = B
                /\ \A k \in 1..B : /\ validHits[k][1].type = validHits[1][1].type
                                   /\ validHits[k][1].id = validHits[1][1].id
        THEN IF validHits[1][1].type = "structure"
             THEN [stop("structure") EXCEPT !.hitStructures =
                      Append(@, [depth |-> st.depth, path |-> st.path,
                                 movingEntryPoint |-> TRUE] @@ validHits[1][1].rec)]
             ELSE [stop("entryPoint") EXCEPT !.hitEntryPoints =
                      Append(@, [depth |-> st.depth, path |-> st.path,
                                 movingEntryPoint |-> TRUE] @@ validHits[1][1].rec)]
        ELSE IF bitmap = {} THEN stop("noSharedOffset")
        ELSE IF chosen = <<>> THEN stop("noOffsetInChunk")
        ELSE IF majorityWins(s, vote)
        THEN [stop("majority") EXCEPT !.hitEntryPoints =
                 Append(@, [ root |-> L.base.address, nodeCount |-> st.depth,
                             addresses |-> <<firstAddr>>,
                             buildOffset |-> winningOffset(vote, chosen[1]),
                             path |-> Append(st.path, chosen[1]),
                             claimed |-> FALSE ])]
        ELSE [L EXCEPT !.state = advance(s, st, chosen[1]),
                       !.step = [ kind |-> "advance", chosenOffset |-> chosen[1],
                                  from |-> st.addresses,
                                  usedPrecomp |-> usePrecomp(ctx, firstAddr, L.chunkStart) ]]

\* scanSingleBasePointer after its last chunk: the returned object
singleResult(s, all) ==
    IF Len(all.structures) = 0 /\ Len(all.entryPoints) = 0
    THEN [ structures |-> <<>>, entryPoints |-> <<>>, targetPaths |-> <<>>,
           stopAllProcessing |-> FALSE ]
    ELSE [ structures  |-> all.structures,
           entryPoints |-> [k \in 1..Len(all.entryPoints) |->
                              [all.entryPoints[k] EXCEPT !.claimed = TRUE]],
           targetPaths |-> all.targetPaths,
           stopAllProcessing |-> s.earlyOutTarget /\ Len(all.targetPaths) > 0 ]

\* scanAllBasePointers: the scan-phase entry points registered for a result
\* (the targetStruct back-reference is left out)
registered(base, result) ==
    [k \in 1..Len(result.structures) |->
        LET h == result.structures[k]
        IN  [ root |-> base.values[1], nodeCount |-> h.nodeCount,
              addresses |-> h.addresses, buildOffset |-> h.buildOffset,
              path |-> h.path, type |-> "entry_point", sourceType |-> h.type,
              claimed |-> FALSE ]]
    \o
    [k \in 1..Len(result.entryPoints) |->
        LET h == result.entryPoints[k]
        IN  [ root |-> base.values[1], nodeCount |-> h.nodeCount,
              addresses |-> h.addresses, buildOffset |-> h.buildOffset,
              path |-> h.path \o (IF h.buildOffset # 0 THEN <<h.buildOffset>> ELSE <<>>),
              type |-> "entry_point", claimed |-> FALSE ]]

\* s.root || s.addresses?.[0]
baseOf(x) == IF x.root # 0 THEN x.root ELSE x.addresses[1]

\* A streaming step that forgets what it streamed: nothing is marked as
\* processed and nothing is removed.
streamAchievementsKeepingAll(s) ==
    IF s.generator = <<>> \/ Len(s.structures) = 0 THEN s
    ELSE LET eps == SelectSeq(s.entryPoints, LAMBDA e : e.root \notin s.processedBaseAddrs)
             sts == SelectSeq(s.structures, LAMBDA x : baseOf(x) \notin s.processedBaseAddrs)
             made == generateAchievements(s.generator[1], sts \o eps)
         IN  IF Len(eps) = 0 /\ Len(sts) = 0 THEN s
             ELSE [s EXCEPT !.generator = <<made.gen>>,
                            !.streamedOutput = @ \o outputLines(made.achievements)]

\* streamAchievements: what it hands to the generator,
\* [...unprocessedSts, ...unprocessedEPs], <<>> when it returns before
streamInput(s) ==
    IF s.generator = <<>> \/ Len(s.structures) = 0 THEN <<>>
    ELSE SelectSeq(s.structures, LAMBDA x : baseOf(x) \notin s.processedBaseAddrs)
            \o SelectSeq(s.entryPoints, LAMBDA e : e.root \notin s.processedBaseAddrs)

\* BDRAMScanner.streamAchievements, on the fields of the model
streamAchievements(s) ==
    IF s.generator = <<>> \/ Len(s.structures) = 0 THEN s
    ELSE LET eps == SelectSeq(s.entryPoints, LAMBDA e : e.root \notin s.processedBaseAddrs)
             sts == SelectSeq(s.structures, LAMBDA x : baseOf(x) \notin s.processedBaseAddrs)
             made == generateAchievements(s.generator[1], sts \o eps)
             afterEps == s.processedBaseAddrs \cup {eps[i].root : i \in 1..Len(eps)}
             newBases == {baseOf(sts[i]) : i \in 1..Len(sts)} \ ({0} \cup afterEps)
             done == afterEps \cup newBases
         IN  IF Len(eps) = 0 /\ Len(sts) = 0 THEN s
             ELSE [s EXCEPT
                     !.generator = <<made.gen>>,
                     !.streamedOutput = @ \o outputLines(made.achievements),
                     !.processedBaseAddrs = done,
                     !.processedBaseAddrCount = @ + Len(eps) + Cardinality(newBases),
                     !.entryPoints = SelectSeq(@, LAMBDA e : e.root \notin done),
                     !.structures  = SelectSeq(@, LAMBDA x : baseOf(x) \notin done)]

\* clearNodePools('after_scan')
clearNodePools(s) ==
    [s EXCEPT !.batches = <<>>, !.basePointers = <<>>, !.staticNodes = <<>>,
              !.processedBaseAddrs = {}, !.targetNodes = <<>>]

(***************************************************************************)
(* Preprocessor calls as actions.                                          *)
(***************************************************************************)
\* A limit test that lets one batch too many through.
batchLimitReachedPast(n) == n > maxFiles

\* this.batchCount >= this.maxBatches
batchLimitReached(n) == n >= maxFiles

\* the three classification totals of getCounts()
classCounts(m, n) ==
    [ staticStatics |-> getCounts(m, n).staticStatics,
      staticNodes   |-> getCounts(m, n).staticNodes,
      dynamicNodes  |-> getCounts(m, n).dynamicNodes ]

\* _autoTrim: parseCSV, then (when rows remain) addBatch.  lastOp notes
\* whether the batch is the one the preceding removeBatch took out.
AddBatch(rows) ==
    LET parsed == parseCSV(rows, systemId)
    IN  IF Len(parsed.addresses) = 0
        THEN /\ lastOp' = [op |-> "noValidRows"]
             /\ UNCHANGED <<systemId, batchCount, nodeMap, collapsed, batchesIn>>
        ELSE IF batchLimitReached(batchCount)
        THEN /\ lastOp' = [op |-> "addBatchError",
                           before |-> [batchCount |-> batchCount, nodeMap |-> nodeMap]]
             /\ UNCHANGED <<systemId, batchCount, nodeMap, collapsed, batchesIn>>
        ELSE /\ nodeMap' = addBatchMap(nodeMap, parsed, batchCount, systemId)
             /\ batchCount' = batchCount + 1
             /\ batchesIn' = Append(batchesIn, parsed)
             /\ lastOp' = [op |-> "addBatch", parsed |-> parsed, batchIndex |-> batchCount,
                           readd |-> IF lastOp.op = "removeBatch" /\ lastOp.removed = parsed
                                     THEN <<[batchIndex |-> lastOp.batchIndex,
                                             before |-> lastOp.before]>>
                                     ELSE <<>>]
             /\ UNCHANGED <<systemId, collapsed>>

RemoveBatch(batchIndex) ==
    IF batchIndex < 0 \/ batchIndex >= batchCount
    THEN /\ lastOp' = [op |-> "removeBatchError"]
         /\ UNCHANGED <<systemId, batchCount, nodeMap, collapsed, batchesIn>>
    ELSE /\ nodeMap' = RemoveRows(nodeMap, batchIndex, batchCount - 1)
         /\ batchCount' = batchCount - 1
         /\ batchesIn' = [k \in 1..(Len(batchesIn) - 1) |->
                            IF k <= batchIndex THEN batchesIn[k] ELSE batchesIn[k + 1]]
         /\ lastOp' = [op |-> "removeBatch", batchIndex |-> batchIndex,
                       pruned |-> Len(nodeMap) - Len(nodeMap'),
                       removed |-> batchesIn[batchIndex + 1],
                       before |-> classCounts(nodeMap, batchCount)]
         /\ UNCHANGED <<systemId, collapsed>>

Collapse ==
    /\ collapsed' = <<collapse(nodeMap, batchCount, systemId)>>
    /\ nodeMap' = <<>>
    /\ lastOp' = [op |-> "collapse", counts |-> getCounts(nodeMap, batchCount)]
    /\ UNCHANGED <<systemId, batchCount, batchesIn>>

(***************************************************************************)
(* Inputs of the preprocessor runs: raw CSV rows, before validation.       *)
(***************************************************************************)
MaxLoaded == 2      \* batches loaded at a time
MaxDup    == 11     \* rows of one batch that carry the same value

AddrA   == 2^29 + 2^14          \* 0x80010000
AddrB   == AddrA + 1            \* 0x80010004
Val1    == 2^29 + 2^15          \* 0x80020000
Val2    == Val1 + 16            \* 0x80020040
DupBase == 2^29 + 3 * 2^14      \* 0x80030000

Row(a, v) == [address |-> a, value |-> v]

DupRows(n) == [i \in 1..n |-> Row(DupBase + i - 1, Val1)]

OrdinaryRows(sys) ==
    { <<>>,
      <<Row(AddrA, Val1)>>,
      <<Row(AddrA, Val2)>>,
      <<Row(AddrA, Val1), Row(AddrB, Val1)>>,
      <<Row(AddrA, systems[sys].min), Row(AddrB, systems[sys].max + 1)>>,
      <<Row(AddrA, Val1), Row(AddrA, Val2)>> }

ProxDiffs == {-12, -11, 1, 2}

\* a row whose address lies d words from its (masked) value, and the self-pointer
ProxRows(sys) ==
    {<<Row(MaskedVal(Val2, getSystemMask(sys)) + d, Val2)>> : d \in ProxDiffs}
        \cup {<<Row(Val2, Val2)>>}

\* an anchor group or ordinary rows alone, a proximity row beside a stored
\* row, and anchor groups mixed with ordinary rows of the same and of another
\* value
RawBatches(sys) ==
    {DupRows(n) : n \in (MaxDup - 1)..MaxDup}
        \cup {pr \o <<Row(AddrA, Val1)>> : pr \in ProxRows(sys)}
        \cup OrdinaryRows(sys)
        \cup { DupRows(MaxDup) \o <<Row(AddrA, Val2)>>,
               DupRows(MaxDup - 1) \o <<Row(AddrA, Val1)>> }

PreSystems == {"n64", "ps1"}

InitPre ==
    /\ systemId \in PreSystems
    /\ batchCount = 0
    /\ nodeMap = <<>>
    /\ lastOp = [op |-> "setSystem"]
    /\ collapsed = <<>>
    /\ batchesIn = <<>>
    /\ sc = NewScanner
    /\ pc = "idle"
    /\ loc = [stage |-> "idle"]
    /\ ret = <<>>
    /\ foundTargetPaths = {}
    /\ encoderInput = <<>>

NextPre ==
    \/ \E rows \in RawBatches(systemId) :
          /\ collapsed = <<>>
          /\ batchCount < MaxLoaded
          /\ AddBatch(rows)
          /\ UNCHANGED scanVars
    \/ \E i \in 0..MaxLoaded :
          /\ collapsed = <<>>
          /\ RemoveBatch(i)
          /\ UNCHANGED scanVars
    \/ /\ collapsed = <<>>
       /\ Collapse
       /\ UNCHANGED scanVars

SpecPre == InitPre /\ [][NextPre]_vars

(***************************************************************************)
(* Sessions that fill the preprocessor: two kinds of file, loaded until    *)
(* the batch limit and past it, with removals of the first and of the last *)
(* possible index.                                                         *)
(***************************************************************************)
LimitBatches == { <<Row(AddrA, Val1)>>, <<Row(AddrA, Val2), Row(AddrB, Val1)>> }

NextLimit ==
    \/ \E rows \in LimitBatches :
          /\ AddBatch(rows)
          /\ UNCHANGED scanVars
    \/ \E i \in {0, maxFiles - 1} :
          /\ RemoveBatch(i)
          /\ UNCHANGED scanVars

SpecLimit == InitPre /\ [][NextLimit]_vars

(***************************************************************************)
(* Claims on the preprocessor, under SpecPre.                              *)
(***************************************************************************)
\* slots[b] of addr in map m, 0 when addr is not stored
SlotAt(m, addr, b) == IF MapHas(m, addr) THEN MapGet(m, addr)[b + 1] ELSE 0

AddrUnique(parsed, i) ==
    \A j \in 1..Len(parsed.addresses) : parsed.addresses[j] = parsed.addresses[i] => j = i

AfterAddBatch == lastOp.op = "addBatch"

(* C7: after addBatch, a row whose (unmasked) value occurs more than 10    *)
(* times among the rows of the batch has not been written to slot         *)
(* batchIndex of its address (the slot stays empty when no other row has   *)
(* that address); a row whose value occurs 10 times or fewer, and which   *)
(* is outside the close-proximity interval, is stored; and after a batch   *)
(* of eleven rows that all carry one value, slot batchIndex of each of     *)
(* their addresses is empty (as a first batch: the node map is empty).     *)
C7_VTableFilter ==
    AfterAddBatch =>
        LET p == lastOp.parsed
            b == lastOp.batchIndex
            n == Len(p.addresses)
            mask == getSystemMask(systemId)
        IN  /\ \A i \in 1..n :
                  ValueFreq(p.values, p.values[i]) > 10
                      => /\ ToUint32W(SlotAt(nodeMap, p.addresses[i], b)) # p.values[i]
                         /\ AddrUnique(p, i) => SlotAt(nodeMap, p.addresses[i], b) = 0
            /\ \A i \in 1..n :
                  ( /\ ValueFreq(p.values, p.values[i]) <= 10
                    /\ AddrUnique(p, i)
                    /\ LET d == p.addresses[i] - MaskedVal(p.values[i], mask)
                       IN  d < -11 \/ d > 1 )
                      => SlotAt(nodeMap, p.addresses[i], b) # 0
            /\ (n = 11 /\ \A i \in 1..n : p.values[i] = p.values[1])
                  => /\ \A i \in 1..n : SlotAt(nodeMap, p.addresses[i], b) = 0
                     /\ b = 0 => nodeMap = <<>>

\* a batch mixing an anchor value (11 rows) with a stored ordinary row, on a
\* pool that already holds an earlier batch
C7_Witness ==
    /\ AfterAddBatch
    /\ lastOp.batchIndex = 1
    /\ \E i \in 1..Len(lastOp.parsed.values) :
          ValueFreq(lastOp.parsed.values, lastOp.parsed.values[i]) = 11
    /\ \E i \in 1..Len(lastOp.parsed.values) :
          /\ ValueFreq(lastOp.parsed.values, lastOp.parsed.values[i]) = 1
          /\ SlotAt(nodeMap, lastOp.parsed.addresses[i], 1) # 0

C9_StoredHasNonZeroSlot ==
    \A i \in 1..Len(nodeMap) : \E b \in 0..(batchCount - 1) : nodeMap[i].slots[b + 1] # 0

\* a removeBatch pruned an address and left others in the map
C9_Witness ==
    /\ lastOp.op = "removeBatch"
    /\ lastOp.pruned > 0
    /\ Len(nodeMap) > 0

(* C10: the StaticStatic, StaticNode and DynamicNode counts of getCounts() *)
(* (classifying the unmasked slots) equal the numbers of addresses that    *)
(* collapse() routes to the three pools (classifying the masked slots).    *)
C10_CountsEqualCollapse ==
    lastOp.op = "collapse" =>
        /\ lastOp.counts.staticStatics = collapsed[1].routed.staticStatics
        /\ lastOp.counts.staticNodes   = collapsed[1].routed.staticNodes
        /\ lastOp.counts.dynamicNodes  = collapsed[1].routed.dynamicNodes

\* a collapse on a masked system that routed addresses to two different pools
C10_Witness ==
    /\ lastOp.op = "collapse"
    /\ getSystemMask(systemId) # <<>>
    /\ collapsed[1].routed.staticNodes > 0
    /\ collapsed[1].routed.dynamicNodes > 0

(* C11: after removeBatch(i) followed by addBatch of the batch that was at  *)
(* index i (it becomes the last batch), getCounts() gives the StaticStatic, *)
(* StaticNode and DynamicNode counts it gave before the removal.           *)
C11_RemoveReAddKeepsCounts ==
    (lastOp.op = "addBatch" /\ lastOp.readd # <<>>) =>
        classCounts(nodeMap, batchCount) = lastOp.readd[1].before

\* the first of two batches was removed and absorbed again as the last one,
\* on a pool with both a StaticNode and a DynamicNode
C11_Witness ==
    /\ lastOp.op = "addBatch"
    /\ lastOp.readd # <<>>
    /\ lastOp.readd[1].batchIndex = 0
    /\ lastOp.batchIndex = 1
    /\ lastOp.readd[1].before.staticNodes > 0
    /\ lastOp.readd[1].before.dynamicNodes > 0

(***************************************************************************)
(* Range queries: Config.getAddressRangeIndex asked, for any system of the *)
(* catalogue, about aligned addresses of its memory at and around the      *)
(* ends and the quarter points of each memory range.                       *)
(***************************************************************************)
ProbeSpan == 2      \* words probed on each side of a boundary

\* memoryRange as a list, for the single-range and the dual-range systems
memoryRanges(sys) ==
    IF systems[sys].rangeMode = "wii" THEN systems[sys].memoryRange
    ELSE << [min |-> systems[sys].min, max |-> systems[sys].max] >>

ProbeAddresses(sys) ==
    LET M == memoryRanges(sys)
    IN  { a \in UNION { { M[i].min + ((M[i].max - M[i].min + 1) * k) \div 4 + d :
                              k \in 0..4, d \in (-ProbeSpan)..ProbeSpan } :
                        i \in 1..Len(M) } :
            \E i \in 1..Len(M) : a >= M[i].min /\ a <= M[i].max }

AllSystems == DOMAIN systems

InitRanges ==
    /\ systemId \in AllSystems
    /\ batchCount = 0
    /\ nodeMap = <<>>
    /\ lastOp = [op |-> "setSystem"]
    /\ collapsed = <<>>
    /\ batchesIn = <<>>
    /\ sc = NewScanner
    /\ pc = "idle"
    /\ loc = [stage |-> "idle"]
    /\ ret = <<>>
    /\ foundTargetPaths = {}
    /\ encoderInput = <<>>

RangeIndex(address) ==
    /\ lastOp' = [op |-> "getAddressRangeIndex", address |-> address,
                  index |-> getAddressRangeIndex(systemId, address)]
    /\ UNCHANGED <<systemId, batchCount, nodeMap, collapsed, batchesIn>>
    /\ UNCHANGED scanVars

NextRanges == \E a \in ProbeAddresses(systemId) : RangeIndex(a)

SpecRanges == InitRanges /\ [][NextRanges]_vars

(* C13: for every system of the catalogue getRanges returns non-empty      *)
(* ranges (min <= max) that are pairwise disjoint and hold every aligned    *)
(* address of the system's memory; on a half-mode system                   *)
(* getAddressRangeIndex gives 0 for the addresses below the aligned        *)
(* midpoint and 1 for those from the midpoint on.                          *)
C13_RangesPartitionMemory ==
    lastOp.op = "getAddressRangeIndex" =>
        LET R == getRanges(systemId)
            a == lastOp.address
            cfg == systems[systemId]
        IN  /\ \A i \in 1..Len(R) : R[i].min <= R[i].max
            /\ \A i, j \in 1..Len(R) :
                  i < j => (R[i].max < R[j].min \/ R[j].max < R[i].min)
            /\ \E i \in 1..Len(R) : a >= R[i].min /\ a <= R[i].max
            /\ cfg.rangeMode = "half" =>
                  lastOp.index = IF a < cfg.min + (cfg.max - cfg.min + 1) \div 2
                                 THEN 0 ELSE 1

(* C12: addBatch never absorbs a batch beyond the tenth; the call made     *)
(* when 10 batches are absorbed fails and leaves batchCount and the node   *)
(* map (every slot of every address), hence the counts, as they were.      *)
C12_BatchLimit ==
    /\ batchCount <= 10
    /\ lastOp.op = "addBatch" => lastOp.batchIndex < 10
    /\ lastOp.op = "addBatchError" =>
          /\ batchCount = 10
          /\ batchCount = lastOp.before.batchCount
          /\ nodeMap = lastOp.before.nodeMap
          /\ getCounts(nodeMap, batchCount)
                = getCounts(lastOp.before.nodeMap, lastOp.before.batchCount)

\* an eleventh addBatch failed on a pool holding a StaticNode
C12_Witness ==
    /\ lastOp.op = "addBatchError"
    /\ Len(batchesIn) = 10
    /\ getCounts(nodeMap, batchCount).staticNodes > 0

(***************************************************************************)
(* processBatches (part_003) as steps: the stage prologues and epilogues,  *)
(* one pass of each detection loop, one base pointer, one DFS iteration.   *)
(***************************************************************************)
\* encoderInput after a call of generateAchievements(input); no call is made
\* for an empty input
handedOver(input) == IF input = <<>> THEN encoderInput ELSE Append(encoderInput, input)

\* no DFS running
NoDfs ==
    [ base |-> [address |-> 0, values |-> <<>>], chunkStart |-> 0,
      state |-> [addresses |-> <<>>, depth |-> 0, path |-> <<>>],
      hitStructures |-> <<>>, hitEntryPoints |-> <<>>, targetPaths |-> <<>>,
      broke |-> FALSE, step |-> [kind |-> "none"] ]

NoResults == [structures |-> <<>>, entryPoints |-> <<>>, targetPaths |-> <<>>]

\* Stage 1, up to the offset loop of detectStaticLists
BeginProcess ==
    /\ pc = "ready"
    /\ LET out      == collapsed[1]
           ingested == [sc EXCEPT !.systemId = out.systemId,
                                  !.batches = ingestPreprocessorOutput(out),
                                  !.injectedTargets = @ \cup loc.targetAddresses]
           s        == classifyNodes(ingested)
       IN  /\ sc' = s
           /\ loc' = [ targetAddresses |-> loc.targetAddresses,
                       pool |-> SortAsc(SeqSet(MapKeys(s.staticStaticNodes))),
                       offset |-> OFFSET_MIN, structId |-> 1,
                       walked |-> FALSE, chains |-> <<>>, resolved |-> <<>> ]
    /\ pc' = "static"
    /\ ret' = ret
    /\ UNCHANGED <<preVars, foundTargetPaths, encoderInput>>

\* detectStaticLists: one offset
StaticOffset ==
    /\ pc = "static"
    /\ loc.offset <= OFFSET_MAX
    /\ LET r == staticPass([sc |-> sc, pool |-> loc.pool, structId |-> loc.structId],
                           loc.offset)
       IN  /\ sc' = r.sc
           /\ loc' = [ targetAddresses |-> loc.targetAddresses,
                       pool |-> r.pool, offset |-> loc.offset + OFFSET_STEP,
                       structId |-> r.structId,
                       walked |-> TRUE, chains |-> r.chains, resolved |-> r.resolved ]
    /\ UNCHANGED <<pc, ret>>
    /\ UNCHANGED <<preVars, foundTargetPaths, encoderInput>>

\* detectStaticLists after the loop, then the working sets of detectDynamicLists
StaticEnd ==
    /\ pc = "static"
    /\ loc.offset > OFFSET_MAX
    /\ LET s == finishStaticLists(sc)
       IN  /\ sc' = s
           /\ loc' = [ targetAddresses |-> loc.targetAddresses,
                       batchNodes |-> batchNodes(s), offset |-> OFFSET_MIN, b |-> 1,
                       walked |-> FALSE, pass |-> [offset |-> OFFSET_MIN, b |-> 1],
                       pool |-> <<>>, targetPool |-> {},
                       chains |-> <<>>, entryPoints |-> <<>>, resolved |-> <<>> ]
    /\ pc' = "dynamic"
    /\ ret' = ret
    /\ encoderInput' = handedOver(staticStreamInput(sc))
    /\ UNCHANGED <<preVars, foundTargetPaths>>

\* detectDynamicLists: one offset of one batch
DynamicStep ==
    /\ pc = "dynamic"
    /\ loc.offset <= OFFSET_MAX
    /\ loc.b <= Len(sc.batches)
    /\ LET working == loc.batchNodes[loc.b]
           r       == dynamicPass(sc, working, loc.offset, loc.b)
           last    == loc.b = Len(sc.batches)
           next    == [loc EXCEPT !.offset = IF last THEN @ + OFFSET_STEP ELSE @,
                                  !.b      = IF last THEN 1 ELSE @ + 1]
       IN  IF Len(working) = 0
           THEN /\ sc' = sc
                /\ loc' = [next EXCEPT !.walked = FALSE]
           ELSE /\ sc' = r.sc
                /\ loc' = [next EXCEPT !.batchNodes[loc.b] = r.working,
                                       !.walked = TRUE,
                                       !.pass = [offset |-> loc.offset, b |-> loc.b],
                                       !.pool = working,
                                       !.targetPool = sc.targetNodes[loc.b],
                                       !.chains = r.chains,
                                       !.entryPoints = r.entryPoints,
                                       !.resolved = r.resolved]
    /\ UNCHANGED <<pc, ret>>
    /\ UNCHANGED <<preVars, foundTargetPaths, encoderInput>>

\* detectDynamicLists after the loops
DynamicEnd ==
    /\ pc = "dynamic"
    /\ loc.offset > OFFSET_MAX \/ Len(sc.batches) = 0
    /\ sc' = countDynamic(sc)
    /\ loc' = [targetAddresses |-> loc.targetAddresses, stage |-> "precompute"]
    /\ pc' = "precompute"
    /\ ret' = ret
    /\ UNCHANGED <<preVars, foundTargetPaths, encoderInput>>

\* Stage 3, then the prologue of scanAllBasePointers
Precompute ==
    /\ pc = "precompute"
    /\ LET s == [sc EXCEPT !.basePointers = buildBasePointerSet(sc)]
       IN  /\ sc' = s
           /\ loc' = [ targetAddresses |-> loc.targetAddresses,
                       ctx |-> buildTraversalBitmaps(s),
                       lookups |-> [ structures  |-> s.structures,
                                     entryPoints |-> s.entryPoints ],
                       processed |-> 0, stopped |-> FALSE, scanning |-> FALSE,
                       all |-> NoResults, dfs |-> NoDfs ]
    /\ pc' = "scan"
    /\ ret' = ret
    /\ UNCHANGED <<preVars, foundTargetPaths, encoderInput>>

\* scanAllBasePointers: the next base pointer, through the range gate
ScanNext ==
    /\ pc = "scan"
    /\ ~loc.scanning
    /\ ~loc.stopped
    /\ Len(sc.basePointers) > 0
    /\ LET base == Head(sc.basePointers)
       IN  IF ~isInScanRange(sc, base.address)
           THEN /\ sc' = [sc EXCEPT !.basePointers = Tail(@)]
                /\ loc' = loc
           ELSE /\ sc' = sc
                /\ loc' = [loc EXCEPT !.scanning = TRUE,
                                      !.all = NoResults,
                                      !.dfs = [NoDfs EXCEPT !.base = base,
                                                            !.state = initialDfs(base)]]
    /\ UNCHANGED <<pc, ret>>
    /\ UNCHANGED <<preVars, foundTargetPaths, encoderInput>>

\* scanBasePointerDepth: one iteration of the while loop
DfsStep ==
    /\ pc = "scan"
    /\ loc.scanning
    /\ ~loc.dfs.broke
    /\ loc.dfs.state.depth <= sc.maxDepth
    /\ loc' = [loc EXCEPT !.dfs = dfsIteration(sc, loc.lookups, loc.ctx, loc.dfs)]
    /\ foundTargetPaths' = foundTargetPaths \cup SeqSet(loc'.dfs.targetPaths)
    /\ UNCHANGED <<sc, pc, ret, encoderInput>>
    /\ UNCHANGED preVars

\* scanBasePointerDepth returns: the next chunk, or the end of
\* scanSingleBasePointer and the rest of the loop body of scanAllBasePointers
ChunkEnd ==
    /\ pc = "scan"
    /\ loc.scanning
    /\ loc.dfs.broke \/ loc.dfs.state.depth > sc.maxDepth
    /\ LET d      == loc.dfs
           all    == [ structures  |-> loc.all.structures \o d.hitStructures,
                       entryPoints |-> loc.all.entryPoints \o d.hitEntryPoints,
                       targetPaths |-> loc.all.targetPaths \o d.targetPaths ]
           result == singleResult(sc, all)
           count  == loc.processed + 1
           pushed == [sc EXCEPT !.basePointers = Tail(@),
                                !.entryPoints = @ \o registered(d.base, result)]
       IN  IF chunkEndOf(sc, d.chunkStart) >= maxBreadthOf(sc)
           THEN /\ sc' = IF count % 1000 = 0 THEN streamAchievements(pushed) ELSE pushed
                /\ encoderInput' = IF count % 1000 = 0
                                   THEN handedOver(streamInput(pushed))
                                   ELSE encoderInput
                /\ loc' = [loc EXCEPT !.scanning = FALSE, !.all = all,
                                      !.processed = count,
                                      !.stopped = result.stopAllProcessing,
                                      !.dfs = [d EXCEPT !.step = [kind |-> "returned"]]]
           ELSE /\ sc' = sc
                /\ encoderInput' = encoderInput
                /\ loc' = [loc EXCEPT !.all = all,
                                      !.dfs = [NoDfs EXCEPT
                                                 !.base = d.base,
                                                 !.chunkStart = d.chunkStart + ChunkWords,
                                                 !.state = initialDfs(d.base)]]
    /\ UNCHANGED <<pc, ret>>
    /\ UNCHANGED <<preVars, foundTargetPaths>>

\* Stage 5 and the return of processBatches
Finish ==
    /\ pc = "scan"
    /\ ~loc.scanning
    /\ loc.stopped \/ Len(sc.basePointers) = 0
    /\ LET streamed == streamAchievements(sc)
       IN  /\ sc' = clearNodePools(streamed)
           /\ ret' = Append(ret,
                        [ batchCount     |-> Len(sc.batches),
                          structureCount |-> sc.staticStructureCount
                                               + sc.dynamicStructureCount
                                               + sc.entryPointCount,
                          structures     |-> streamed.structures,
                          targetPaths    |-> streamed.targetPaths,
                          staticOutput   |-> streamed.staticOutput,
                          streamedOutput |-> streamed.streamedOutput ])
    /\ loc' = [targetAddresses |-> loc.targetAddresses, stage |-> "returned"]
    /\ pc' = "done"
    /\ encoderInput' = handedOver(streamInput(sc))
    /\ UNCHANGED <<preVars, foundTargetPaths>>

(***************************************************************************)
(* Inputs of the scanner runs: the CSV files of a session, the target      *)
(* addresses typed in, and the scan parameters.                            *)
(***************************************************************************)
MaxGhost == 1       \* largest ghost cap configured
MaxDepth == 2       \* largest DFS depth configured

N64Base == 2^29 + 2^20          \* 0x80400000
Ps1Base == 2^12                 \* 0x00004000, an address below the mask

\* rows of an n64 dump: <<address, value>> pairs relative to N64Base
N64Rows(pairs) ==
    [i \in 1..Len(pairs) |-> Row(N64Base + pairs[i][1], N64Base + pairs[i][2])]

\* rows of a ps1 dump: masked addresses, values in 0x80000000..0x801FFFFF
Ps1Rows(pairs) ==
    [i \in 1..Len(pairs) |-> Row(Ps1Base + pairs[i][1], 2^29 + Ps1Base + pairs[i][2])]

\* three static chains that meet pairwise through bridged gaps
MeetingChains == << <<0, 38>>, <<10, 59>>, <<20, 39>>, <<40, 78>>, <<60, 79>>, <<80, 200>> >>

\* a static chain whose pointer leads to a lower address
BackwardChain == << <<100, 50>>, <<50, 300>> >>

\* a static chain, a pointer into it, and a chain that moves between batches
StaticPart  == << <<500, 520>>, <<520, 900>> >>
MovingPart0 == << <<600, 500>>, <<700, 720>>, <<720, 1000>>, <<740, 1002>> >>
MovingPart1 == << <<600, 520>>, <<700, 740>>, <<720, 1001>>, <<740, 1003>> >>

\* a base pointer whose two values lead on through fixed nodes, and one whose
\* two values are the typed targets
FixedPart   == << <<100, 300>>, <<200, 400>>, <<301, 600>> >>
PointerPart0 == << <<0, 100>>, <<50, 700>> >>
PointerPart1 == << <<0, 200>>, <<50, 800>> >>

\* a base pointer whose values are base pointers themselves, leading on to
\* fixed nodes two words past their values
NestedPart  == << <<1202, 2000>>, <<1502, 2100>> >>
NestedPart0 == << <<900, 1000>>, <<1000, 1200>>, <<1100, 1450>> >>
NestedPart1 == << <<900, 1100>>, <<1000, 1300>>, <<1100, 1500>> >>

\* the typed targets 0x80200004 and 0x80200044 of the two-batch session whose
\* base pointer 0x80100000 holds 0x80200000 / 0x80200040
TargetPathTargets == {2^29 + 2^19 + 1, 2^29 + 2^19 + 17}

Scenarios ==
    { [ sys |-> "n64", targets |-> {},
        files |-> << N64Rows(MeetingChains), N64Rows(MeetingChains) >> ],
      [ sys |-> "n64", targets |-> {},
        files |-> << N64Rows(BackwardChain), N64Rows(BackwardChain) >> ],
      [ sys |-> "n64", targets |-> {},
        files |-> << N64Rows(StaticPart \o MovingPart0),
                     N64Rows(StaticPart \o MovingPart1) >> ],
      [ sys |-> "ps1", targets |-> {Ps1Base + 700, Ps1Base + 800},
        files |-> << Ps1Rows(FixedPart \o PointerPart0),
                     Ps1Rows(FixedPart \o PointerPart1) >> ],
      [ sys |-> "ps1", targets |-> {},
        files |-> << Ps1Rows(NestedPart \o NestedPart0),
                     Ps1Rows(NestedPart \o NestedPart1) >> ],
      [ sys |-> "ps1", targets |-> {Ps1Base + 1202, Ps1Base + 1502},
        files |-> << Ps1Rows(NestedPart \o NestedPart0),
                     Ps1Rows(NestedPart \o NestedPart1) >> ],
      [ sys |-> "n64", targets |-> TargetPathTargets,
        files |-> << <<Row(2^29 + 2^18, 2^29 + 2^19)>>,
                     <<Row(2^29 + 2^18, 2^29 + 2^19 + 16)>> >> ] }

\* a static chain, a chain that moves between batches, and two fixed pointers
\* to the head of the moving chain
ListedPart   == << <<500, 520>>, <<520, 999>> >>
HeadPart     == << <<900, 700>>, <<950, 700>> >>
StreamedPart0 == << <<700, 720>>, <<720, 1000>>, <<740, 1002>> >>
StreamedPart1 == << <<700, 740>>, <<720, 1001>>, <<740, 1003>> >>

\* two static chains that meet in a shared node: the longer one from 0, the
\* shorter one from 200
JoinedChains == << <<0, 20>>, <<20, 40>>, <<40, 60>>, <<60, 80>>, <<80, 300>>,
                   <<200, 220>>, <<220, 60>> >>

\* the static array: 0x80000100, 0x80000104, ..., 0x80000114, each holding the
\* next address and the last one holding 0x80000100
ArrayBase == 2^29 + 64
StaticArray ==
    [i \in 1..6 |-> Row(ArrayBase + i - 1, ArrayBase + (i % 6))]

\* sessions of one loaded file
SingleBatchScenarios ==
    { [ sys |-> "n64", targets |-> {}, files |-> << StaticArray >> ],
      [ sys |-> "n64", targets |-> {}, files |-> << N64Rows(MeetingChains) >> ],
      [ sys |-> "n64", targets |-> {}, files |-> << N64Rows(JoinedChains) >> ],
      [ sys |-> "n64", targets |-> {},
        files |-> << N64Rows(StaticPart \o MovingPart0) >> ],
      [ sys |-> "ps1", targets |-> {},
        files |-> << Ps1Rows(FixedPart \o PointerPart0) >> ] }

\* the sessions of the runs in which streaming is followed
StreamedSession ==
    [ sys |-> "ps1", targets |-> {},
      files |-> << Ps1Rows(ListedPart \o StreamedPart0 \o HeadPart),
                   Ps1Rows(ListedPart \o StreamedPart1 \o HeadPart) >> ]

StreamScenarios == Scenarios \cup {StreamedSession}

\* the ps1 sessions scanned with and without breadth
BreadthScenarios ==
    { StreamedSession,
      [ sys |-> "ps1", targets |-> {Ps1Base + 700, Ps1Base + 800},
        files |-> << Ps1Rows(FixedPart \o PointerPart0),
                     Ps1Rows(FixedPart \o PointerPart1) >> ],
      [ sys |-> "ps1", targets |-> {},
        files |-> << Ps1Rows(NestedPart \o NestedPart0),
                     Ps1Rows(NestedPart \o NestedPart1) >> ] }

\* what the UI hands to the scanner before processBatches
ScanOptions ==
    { [ maxBreadth |-> 0, maxDepth |-> 1,
        earlyOutBasePointer |-> FALSE, earlyOutTarget |-> FALSE,
        enabledRanges |-> {0, 1}, skipStickyPointers |-> TRUE, generator |-> FALSE ],
      [ maxBreadth |-> 124, maxDepth |-> MaxDepth,
        earlyOutBasePointer |-> TRUE, earlyOutTarget |-> TRUE,
        enabledRanges |-> {0, 1}, skipStickyPointers |-> TRUE, generator |-> TRUE ],
      [ maxBreadth |-> 132, maxDepth |-> MaxDepth,
        earlyOutBasePointer |-> TRUE, earlyOutTarget |-> FALSE,
        enabledRanges |-> {0, 1}, skipStickyPointers |-> FALSE, generator |-> FALSE ],
      [ maxBreadth |-> 124, maxDepth |-> MaxDepth,
        earlyOutBasePointer |-> FALSE, earlyOutTarget |-> FALSE,
        enabledRanges |-> {1}, skipStickyPointers |-> FALSE, generator |-> TRUE ] }

MinChainLengths == {2, 3}

\* the UI settings with the breadth field at 0 and the generator attached
ZeroBreadthOption ==
    [ maxBreadth |-> 0, maxDepth |-> MaxDepth,
      earlyOutBasePointer |-> FALSE, earlyOutTarget |-> FALSE,
      enabledRanges |-> {0, 1}, skipStickyPointers |-> FALSE, generator |-> TRUE ]

\* the node map after the files were added in order
RECURSIVE loadFiles(_, _, _, _)
loadFiles(files, k, m, sys) ==
    IF k > Len(files) THEN m
    ELSE loadFiles(files, k + 1, addBatchMap(m, parseCSV(files[k], sys), k - 1, sys), sys)

\* the controller about to call processBatches for the session sn with the
\* scan parameters opt, minChainLength m and maxGhostNodes g
ScanStart(sn, opt, m, g) ==
    LET loaded == loadFiles(sn.files, 1, <<>>, sn.sys)
    IN  /\ systemId = sn.sys
        /\ batchCount = Len(sn.files)
        /\ nodeMap = <<>>
        /\ lastOp = [op |-> "collapse", counts |-> getCounts(loaded, Len(sn.files))]
        /\ collapsed = <<collapse(loaded, Len(sn.files), sn.sys)>>
        /\ batchesIn = [k \in 1..Len(sn.files) |-> parseCSV(sn.files[k], sn.sys)]
        /\ sc = [NewScanner EXCEPT
                    !.minChainLength = m, !.maxGhostNodes = g,
                    !.maxBreadth = opt.maxBreadth, !.maxDepth = opt.maxDepth,
                    !.earlyOutBasePointer = opt.earlyOutBasePointer,
                    !.earlyOutTarget = opt.earlyOutTarget,
                    !.skipStickyPointers = opt.skipStickyPointers,
                    !.enabledRanges = opt.enabledRanges,
                    !.generator = IF opt.generator THEN <<NewGenerator>> ELSE <<>>]
        /\ pc = "ready"
        /\ loc = [targetAddresses |-> sn.targets]
        /\ ret = <<>>
        /\ foundTargetPaths = {}
        /\ encoderInput = <<>>

InitScan ==
    \E sn \in Scenarios, opt \in ScanOptions, m \in MinChainLengths, g \in 0..MaxGhost :
        ScanStart(sn, opt, m, g)

NextScan ==
    \/ BeginProcess
    \/ StaticOffset
    \/ StaticEnd
    \/ DynamicStep
    \/ DynamicEnd
    \/ Precompute
    \/ ScanNext
    \/ DfsStep
    \/ ChunkEnd
    \/ Finish

SpecScan == InitScan /\ [][NextScan]_vars

\* _runProcessing after the first processBatches has resolved (the generator
\* is given the targets and the system), then _runProcessing once more up to
\* its call of processBatches: the same parameters, the same collapse()
\* output, the same target rows
Rerun ==
    /\ pc = "done"
    /\ Len(ret) = 1
    /\ sc' = [sc EXCEPT !.generator =
                 IF @ = <<>> THEN @
                 ELSE <<updateSystem(setTargetAddresses(@[1], loc.targetAddresses),
                                     systemId)>>]
    /\ pc' = "ready"
    /\ loc' = [targetAddresses |-> loc.targetAddresses]
    /\ ret' = ret
    /\ foundTargetPaths' = {}
    /\ encoderInput' = <<>>
    /\ UNCHANGED preVars

\* scanAllBasePointers: the streamAchievements call made after a base
\* pointer when the count of processed base pointers is a multiple of 1000.
\* The count itself is left open here: the call may follow any processed
\* base pointer, which covers every run in which it follows the 1000th,
\* the 2000th, ...
StreamAtBoundary ==
    /\ pc = "scan"
    /\ ~loc.scanning
    /\ loc.processed > 0
    /\ streamInput(sc) # <<>>
    /\ sc' = streamAchievements(sc)
    /\ encoderInput' = handedOver(streamInput(sc))
    /\ UNCHANGED <<pc, loc, ret>>
    /\ UNCHANGED <<preVars, foundTargetPaths>>

NextStream ==
    \/ NextScan
    \/ StreamAtBoundary

\* processBatches on the collapse() output of a preprocessor that holds a
\* single batch
InitSingle ==
    \E sn \in SingleBatchScenarios, opt \in ScanOptions, m \in MinChainLengths,
       g \in 0..MaxGhost : ScanStart(sn, opt, m, g)

SpecSingle == InitSingle /\ [][NextScan]_vars

InitBreadth ==
    \E sn \in BreadthScenarios, opt \in ScanOptions \cup {ZeroBreadthOption},
       m \in MinChainLengths, g \in 0..MaxGhost : ScanStart(sn, opt, m, g)

SpecBreadth == InitBreadth /\ [][NextScan]_vars

InitStream ==
    \E sn \in StreamScenarios, opt \in ScanOptions, m \in MinChainLengths,
       g \in 0..MaxGhost : ScanStart(sn, opt, m, g)

SpecStream == InitStream /\ [][NextStream]_vars

NextTwoRuns ==
    \/ NextScan
    \/ Rerun

SpecTwoRuns == InitScan /\ [][NextTwoRuns]_vars

(***************************************************************************)
(* The chain walker on its own: walkChainsAtOffset and                     *)
(* resolveChainConflicts called on a pool, as detectStaticLists and        *)
(* detectDynamicLists call them.                                           *)
(***************************************************************************)
WalkSpan == 6       \* the pool is drawn from this many consecutive words
MaxWalkOffset == 2  \* offsets 0 .. 2 words
MaxWalkGhost == 2   \* ghost caps 0 .. 2

\* the words from 0x80000100 on, as the scanner holds them
WalkAddr(i) == ToInt32W(ArrayBase + i)

\* getVal of the pool: every node holds the address delta words further on;
\* with ring set, the last word of the span holds the first one
walkValues(P, delta, ring) ==
    LET nodes == SortAsc(P)
    IN  [k \in 1..Len(nodes) |->
            [ addr  |-> WalkAddr(nodes[k]),
              value |-> IF ring /\ nodes[k] = WalkSpan - 1 THEN WalkAddr(0)
                        ELSE WalkAddr(nodes[k] + delta) ]]

WalkTargetPools == { <<>>, <<{WalkAddr(4)}>> }

InitWalk ==
    /\ systemId = "n64"
    /\ batchCount = 0
    /\ nodeMap = <<>>
    /\ lastOp = [op |-> "setSystem"]
    /\ collapsed = <<>>
    /\ batchesIn = <<>>
    /\ sc = NewScanner
    /\ pc = "walk"
    /\ \E P \in SUBSET (0..(WalkSpan - 1)), delta \in {1, 2}, ring \in BOOLEAN,
          offset \in 0..MaxWalkOffset, g \in 0..MaxWalkGhost, m \in {1, 2, 5},
          tp \in WalkTargetPools :
          loc = [ pool   |-> [k \in 1..Cardinality(P) |-> WalkAddr(SortAsc(P)[k])],
                  vm     |-> walkValues(P, delta, ring),
                  offset |-> offset,
                  opts   |-> [minChainLength |-> m, maxGhostNodes |-> g,
                              targetPool |-> tp],
                  walked |-> <<>>, resolved |-> <<>> ]
    /\ ret = <<>>
    /\ foundTargetPaths = {}
    /\ encoderInput = <<>>

\* the call of walkChainsAtOffset
WalkChains ==
    /\ pc = "walk"
    /\ pc' = "walked"
    /\ loc' = [loc EXCEPT !.walked =
                  <<walkChainsAtOffset(loc.pool, loc.offset, loc.vm, loc.opts)>>]
    /\ UNCHANGED <<sc, ret, foundTargetPaths, encoderInput>>
    /\ UNCHANGED preVars

\* the call of resolveChainConflicts on the chains of the walk
ResolveChains ==
    /\ pc = "walked"
    /\ pc' = "resolved"
    /\ loc' = [loc EXCEPT !.resolved = resolveChainConflicts(loc.walked[1].chains)]
    /\ UNCHANGED <<sc, ret, foundTargetPaths, encoderInput>>
    /\ UNCHANGED preVars

NextWalk ==
    \/ WalkChains
    \/ ResolveChains

SpecWalk == InitWalk /\ [][NextWalk]_vars

(***************************************************************************)
(* The UI controller's file list (part_002): _onSystemChange, _addFiles,   *)
(* _autoTrim and removeFile on top of the preprocessor.  loc holds the     *)
(* controller's fields: systemId ("none" for null), files, trimmedData     *)
(* (entries of kind "null", "hole" for an index never written, or "data"), *)
(* and the _autoTrim calls waiting on file.text().  A file is              *)
(* [id, epoch, valid]: its serial number, the number of system changes     *)
(* before its upload, and whether it has rows that validate.               *)
(***************************************************************************)
MaxUploads == 3     \* files uploaded in one session
MaxChanges == 2     \* system changes in one session

UiSystems == {"n64", "ps1"}

\* the rows of an uploaded file: one row of its own, or one whose value is
\* outside every range
FileRows(file) ==
    IF file.valid THEN <<Row(AddrA + 100 * file.id, Val1 + 100 * file.id)>>
    ELSE <<Row(AddrA + 100 * file.id, 5)>>

\* CoreUtils.parseCSV(text, this.systemId): without a system configuration
\* validateCsvRow keeps every row
uiParse(file, sys) ==
    IF sys = "none"
    THEN [ addresses |-> [i \in 1..Len(FileRows(file)) |-> FileRows(file)[i].address],
           values    |-> [i \in 1..Len(FileRows(file)) |-> FileRows(file)[i].value] ]
    ELSE parseCSV(FileRows(file), sys)

\* array[index] = x on a JS array: indexes between the length and index are
\* left as holes
SetAt(arr, index, x) ==
    [k \in 1..Max2(Len(arr), index + 1) |->
        IF k = index + 1 THEN x
        ELSE IF k <= Len(arr) THEN arr[k]
        ELSE [kind |-> "hole"]]

\* array.splice(index, 1)
Splice(arr, index) ==
    IF index >= Len(arr) THEN arr
    ELSE [k \in 1..(Len(arr) - 1) |-> IF k <= index THEN arr[k] ELSE arr[k + 1]]

HasData(entry) == entry.kind = "data"

InitUI ==
    /\ systemId = "none"
    /\ batchCount = 0
    /\ nodeMap = <<>>
    /\ lastOp = [op |-> "reset"]
    /\ collapsed = <<>>
    /\ batchesIn = <<>>
    /\ sc = NewScanner
    /\ pc = "ui"
    /\ loc = [ systemId |-> "none", files |-> <<>>, trimmedData |-> <<>>,
               pending |-> {}, uploads |-> 0, epoch |-> 0, batchFiles |-> <<>> ]
    /\ ret = <<>>
    /\ foundTargetPaths = {}
    /\ encoderInput = <<>>

\* _onSystemChange(value) with a value other than the current one
onSystemChange(value) ==
    /\ pc = "ui"
    /\ value # loc.systemId
    /\ loc.epoch < MaxChanges
    /\ loc' = [loc EXCEPT !.systemId = value, !.files = <<>>, !.trimmedData = <<>>,
                          !.epoch = @ + 1, !.batchFiles = <<>>]
    /\ systemId' = value
    /\ batchCount' = 0
    /\ nodeMap' = <<>>
    /\ batchesIn' = <<>>
    /\ lastOp' = [op |-> "setSystem"]
    /\ UNCHANGED <<collapsed, sc, pc, ret, foundTargetPaths, encoderInput>>

\* _addFiles with one CSV file, up to the first await of its _autoTrim
addFiles(valid) ==
    /\ pc = "ui"
    /\ loc.systemId # "none"
    /\ loc.uploads < MaxUploads
    /\ Len(loc.files) < maxFiles
    /\ LET file == [id |-> loc.uploads + 1, epoch |-> loc.epoch, valid |-> valid]
       IN  loc' = [loc EXCEPT !.files = Append(@, file),
                              !.trimmedData = Append(@, [kind |-> "null"]),
                              !.pending = @ \cup {[index |-> Len(loc.files), file |-> file]},
                              !.uploads = @ + 1]
    /\ UNCHANGED <<preVars, sc, pc, ret, foundTargetPaths, encoderInput>>

\* _autoTrim after file.text() has resolved, _addBatchToPreprocessor included
autoTrim(p) ==
    /\ pc = "ui"
    /\ p \in loc.pending
    /\ LET parsed == uiParse(p.file, loc.systemId)
           stored == [loc EXCEPT !.pending = @ \ {p},
                                 !.trimmedData = SetAt(@, p.index,
                                                      [kind |-> "data", data |-> parsed])]
       IN  IF Len(parsed.addresses) = 0
           THEN /\ loc' = [loc EXCEPT !.pending = @ \ {p}]
                /\ lastOp' = [op |-> "noValidRows"]
                /\ UNCHANGED <<systemId, batchCount, nodeMap, collapsed, batchesIn>>
           ELSE IF systemId = "none" \/ batchLimitReached(batchCount)
           THEN /\ loc' = stored
                /\ lastOp' = [op |-> "addBatchError"]
                /\ UNCHANGED <<systemId, batchCount, nodeMap, collapsed, batchesIn>>
           ELSE /\ loc' = [stored EXCEPT !.batchFiles = Append(@, p.file)]
                /\ nodeMap' = addBatchMap(nodeMap, parsed, batchCount, systemId)
                /\ batchCount' = batchCount + 1
                /\ batchesIn' = Append(batchesIn, parsed)
                /\ lastOp' = [op |-> "addBatch"]
                /\ UNCHANGED <<systemId, collapsed>>
    /\ UNCHANGED <<sc, pc, ret, foundTargetPaths, encoderInput>>

\* _autoTrim when file.text() rejects
autoTrimFails(p) ==
    /\ pc = "ui"
    /\ p \in loc.pending
    /\ loc' = [loc EXCEPT !.pending = @ \ {p}]
    /\ UNCHANGED <<preVars, sc, pc, ret, foundTargetPaths, encoderInput>>

\* removeFile(index) from the remove button of a row of the file grid
removeFile(index) ==
    /\ pc = "ui"
    /\ index < Len(loc.files)
    /\ IF index >= batchCount
       THEN /\ lastOp' = [op |-> "removeBatchError"]
            /\ loc' = [loc EXCEPT !.files = Splice(@, index),
                                  !.trimmedData = Splice(@, index)]
            /\ UNCHANGED <<systemId, batchCount, nodeMap, collapsed, batchesIn>>
       ELSE /\ nodeMap' = RemoveRows(nodeMap, index, batchCount - 1)
            /\ batchCount' = batchCount - 1
            /\ batchesIn' = Splice(batchesIn, index)
            /\ lastOp' = [op |-> "removeBatch"]
            /\ loc' = [loc EXCEPT !.files = Splice(@, index),
                                  !.trimmedData = Splice(@, index),
                                  !.batchFiles = Splice(@, index)]
            /\ UNCHANGED <<systemId, collapsed>>
    /\ UNCHANGED <<sc, pc, ret, foundTargetPaths, encoderInput>>

NextUI ==
    \/ \E value \in UiSystems \cup {"none"} : onSystemChange(value)
    \/ \E valid \in BOOLEAN : addFiles(valid)
    \/ \E p \in loc.pending : autoTrim(p)
    \/ \E p \in loc.pending : autoTrimFails(p)
    \/ \E index \in 0..(maxFiles - 1) : removeFile(index)

SpecUI == InitUI /\ [][NextUI]_vars

(***************************************************************************)
(* _runProcessing and the stage events of processBatches.  loc.events is   *)
(* what the 'stage:update' listeners have received, loc.indicators the     *)
(* class of each stage indicator of the page.  The work of a stage is left *)
(* out; loc.throws names the stage whose work raises, if any.              *)
(***************************************************************************)
\* the data-stage names of the stage indicators
UiStageNames == {"static", "dynamic", "precompute", "scan", "generate"}

\* the stage names processBatches emits, in its order
CoreStages == <<"static-list", "dynamic-list", "precompute", "bitmap-scan", "generate">>

\* _resetAllStages
resetAllStages(ind) == [stage \in UiStageNames |-> "waiting"]

\* _updateStage: an unknown stage has no element and is ignored
updateStage(ind, stage, status) ==
    IF stage \notin DOMAIN ind THEN ind
    ELSE [ind EXCEPT ![stage] =
             CASE status = "active"    -> "active"
               [] status = "completed" -> "completed"
               [] status = "skipped"   -> "completed"
               [] status = "error"     -> "error"
               [] OTHER                -> "none"]

\* globalEventBus.emit('stage:update', {stage, status}) with the listener of
\* the UI controller
emitStage(l, stage, status) ==
    [l EXCEPT !.events = Append(@, [stage |-> stage, status |-> status]),
              !.indicators = updateStage(@, stage, status)]

InitRun ==
    /\ systemId = "none"
    /\ batchCount = 0
    /\ nodeMap = <<>>
    /\ lastOp = [op |-> "reset"]
    /\ collapsed = <<>>
    /\ batchesIn = <<>>
    /\ sc = NewScanner
    /\ pc = "run"
    /\ \E sys \in UiSystems \cup {"none"}, ready \in 0..MaxUploads,
          throws \in {"none"} \cup {CoreStages[i] : i \in 1..Len(CoreStages)},
          before \in {"waiting", "completed"} :
          loc = [ systemId |-> sys, ready |-> ready, throws |-> throws,
                  events |-> <<>>,
                  indicators |-> [stage \in UiStageNames |-> before] ]
    /\ ret = <<>>
    /\ foundTargetPaths = {}
    /\ encoderInput = <<>>

\* one stage of processBatches, from its 'active' event to the yield after
\* its 'completed' event; an exception is rethrown to _runProcessing, whose
\* catch emits the error event
processStage(stage, next) ==
    /\ pc = stage
    /\ LET started == emitStage(loc, stage, "active")
       IN  IF loc.throws = stage
           THEN /\ loc' = emitStage(started, "static-list", "error")
                /\ pc' = "failed"
           ELSE /\ loc' = emitStage(started, stage, "completed")
                /\ pc' = next
    /\ UNCHANGED <<preVars, sc, ret, foundTargetPaths, encoderInput>>

\* _runProcessing up to the first yield of processBatches
runProcessing ==
    /\ pc = "run"
    /\ IF loc.systemId = "none" \/ loc.ready < 2
       THEN /\ pc' = "refused"
            /\ loc' = loc
       ELSE LET cleared == [loc EXCEPT !.indicators = resetAllStages(@)]
                started == emitStage(cleared, "static-list", "active")
            IN  IF loc.throws = "static-list"
                THEN /\ loc' = emitStage(started, "static-list", "error")
                     /\ pc' = "failed"
                ELSE /\ loc' = emitStage(started, "static-list", "completed")
                     /\ pc' = "dynamic-list"
    /\ UNCHANGED <<preVars, sc, ret, foundTargetPaths, encoderInput>>

\* stage 5 of processBatches up to its return
stageGenerate ==
    /\ pc = "generate"
    /\ LET started == emitStage(loc, "generate", "active")
       IN  IF loc.throws = "generate"
           THEN /\ loc' = emitStage(started, "static-list", "error")
                /\ pc' = "failed"
           ELSE /\ loc' = started
                /\ pc' = "resolved"
    /\ UNCHANGED <<preVars, sc, ret, foundTargetPaths, encoderInput>>

\* _runProcessing after processBatches has resolved
runCompletes ==
    /\ pc = "resolved"
    /\ loc' = emitStage(emitStage(loc, "generate", "active"), "generate", "completed")
    /\ pc' = "finished"
    /\ UNCHANGED <<preVars, sc, ret, foundTargetPaths, encoderInput>>

NextRun ==
    \/ runProcessing
    \/ processStage("dynamic-list", "precompute")
    \/ processStage("precompute", "bitmap-scan")
    \/ processStage("bitmap-scan", "generate")
    \/ stageGenerate
    \/ runCompletes

SpecRun == InitRun /\ [][NextRun]_vars

(***************************************************************************)
(* Claims on the chain walker and the list detector, under SpecScan.       *)
(***************************************************************************)
Last(s) == s[Len(s)]

\* the chains of R joined to chain i directly or through other chains
RECURSIVE Joined(_, _)
Joined(R, S) ==
    LET more == {j \in 1..Len(R) :
                    \E i \in S : SeqSet(R[i].nodes) \cap SeqSet(R[j].nodes) # {}}
    IN  IF more \subseteq S THEN S ELSE Joined(R, S \cup more)

AfterResolve == pc \in {"static", "dynamic"} /\ loc.walked

(* C4: after resolveChainConflicts, every connected group of chains (two   *)
(* chains are connected when they share a node, directly or through other  *)
(* chains) holds exactly one chain marked isHead, and no two chains marked *)
(* isHead share a node.                                                    *)
C4_OneHeadPerGroup ==
    AfterResolve =>
        LET R == loc.resolved
        IN  /\ \A i \in 1..Len(R) :
                  Cardinality({j \in Joined(R, {i}) : R[j].isHead}) = 1
            /\ \A i, j \in 1..Len(R) :
                  (i # j /\ R[i].isHead /\ R[j].isHead)
                      => SeqSet(R[i].nodes) \cap SeqSet(R[j].nodes) = {}

StaticLists == SelectSeq(sc.structures, IsStaticList)

(* C5: while and after detectStaticLists records static lists, every node  *)
(* and every ghost of each recorded static_list is in the target-node pool *)
(* of every batch, is not in the StaticStatic pool and is not in the       *)
(* walker's working pool.                                                  *)
C5_StaticListConsumed ==
    pc = "static" =>
        \A k \in 1..Len(StaticLists) :
            \A a \in SeqSet(StaticLists[k].addresses) \cup SeqSet(StaticLists[k].ghosts) :
                /\ \A b \in 1..Len(sc.batches) : a \in sc.targetNodes[b]
                /\ ~ValHas(sc.staticStaticNodes, a)
                /\ ~SeqHas(loc.pool, a)

\* the offset loop is over and a recorded list carries a ghost, two batches
C5_Witness ==
    /\ pc = "static"
    /\ loc.offset > OFFSET_MAX
    /\ Len(sc.batches) = 2
    /\ \E k \in 1..Len(StaticLists) :
          /\ StaticLists[k].ghostCount > 0
          /\ Len(StaticLists[k].ghosts) = StaticLists[k].ghostCount

(* C6: every static_list recorded by detectStaticLists has nodeCount >=     *)
(* minChainLength and its addresses in strictly ascending order.           *)
C6_StaticListAscending ==
    pc = "static" =>
        \A k \in 1..Len(StaticLists) :
            /\ StaticLists[k].nodeCount >= sc.minChainLength
            /\ \A i \in 1..(Len(StaticLists[k].addresses) - 1) :
                  StaticLists[k].addresses[i] < StaticLists[k].addresses[i + 1]

(* C3: after a pass of the dynamic detection for batch b at an offset,     *)
(* every node of the working set whose value + offset lies in              *)
(* targetNodes[b] ends a walk that walkChainsAtOffset returned in          *)
(* entryPoints, and the scanner holds for it the entry-point record        *)
(* {root = first node, buildOffset = offset, path = [offset], batchIdx =   *)
(* b, claimed = false}.                                                    *)
C3_EntryPointRecorded ==
    (pc = "dynamic" /\ loc.walked) =>
        LET b      == loc.pass.b
            offset == loc.pass.offset
            vm     == batchVals(sc, b)
        IN  \A a \in SeqSet(loc.pool) :
              (ValOf(vm, a) + offset \in loc.targetPool) =>
                  /\ \E j \in 1..Len(loc.entryPoints) :
                        Last(loc.entryPoints[j].nodes) = a
                  /\ \E k \in 1..Len(sc.entryPoints) :
                        /\ Last(sc.entryPoints[k].addresses) = a
                        /\ sc.entryPoints[k].root = sc.entryPoints[k].addresses[1]
                        /\ sc.entryPoints[k].buildOffset = offset
                        /\ sc.entryPoints[k].path = <<offset>>
                        /\ sc.entryPoints[k].batchIdx = b - 1
                        /\ sc.entryPoints[k].claimed = FALSE

(***************************************************************************)
(* Claims on the forward scanner.                                          *)
(***************************************************************************)
(* C1: at every advance step of scanBasePointerDepth the chosen offset     *)
(* agrees across the batches: for each batch b, the current address of b   *)
(* is in batch b's index and its value + chosenOffset is an address of     *)
(* batch b's index, on the precomputed and on the on-the-fly path.         *)
C1_OffsetAgreesAcrossBatches ==
    (pc = "scan" /\ loc.dfs.step.kind = "advance") =>
        \A b \in 1..Len(sc.batches) :
            /\ batchIndexHas(sc, b, loc.dfs.step.from[b])
            /\ batchIndexHas(sc, b, batchValue(sc, b, loc.dfs.step.from[b])
                                        + loc.dfs.step.chosenOffset)

\* every targetPath a DFS pushed is among the returned ones
FoundPathsReturned ==
    \A tp \in foundTargetPaths :
        \E k \in 1..Len(ret[1].targetPaths) : ret[1].targetPaths[k] = tp

\* the session of TargetPathTargets, scanned with every range of the system
\* enabled and room for one step of one word, returns the one targetPath
\* [+0x4] to 0x80200004
TargetPathScenario ==
    ( /\ sc.injectedTargets = TargetPathTargets
      /\ \A i \in 1..Len(getRanges(systemId)) : (i - 1) \in sc.enabledRanges
      /\ sc.maxDepth >= 2
      /\ maxBreadthOf(sc) >= 1 ) =>
        /\ Len(ret[1].targetPaths) = 1
        /\ ret[1].targetPaths[1].path = pathStr(<<1>>)
        /\ ret[1].targetPaths[1].targetAddress = Hex(2^29 + 2^19 + 1)

(* C2: when processBatches has returned, every targetPath {basePointer,    *)
(* path, targetAddress} that a DFS pushed on reaching a state in which     *)
(* every batch's current address is an injected target is present in the   *)
(* returned targetPaths; and the session of base pointer 0x80100000 with   *)
(* values 0x80200000 / 0x80200040 and targets {0x80200004, 0x80200044}     *)
(* returns exactly one targetPath, with path [+0x4] and targetAddress      *)
(* 0x80200004.                                                             *)
C2_TargetPathReturned ==
    pc = "done" => (FoundPathsReturned /\ TargetPathScenario)

\* the address of the base pointer at the head of the scan, as the input
\* batches gave it (an unsigned 32-bit address)
GateInputAddress == ToUint32W(Head(sc.basePointers).address)

\* the address lies inside an enabled range of the system
InEnabledRange(a) ==
    \E r \in sc.enabledRanges :
        /\ r + 1 <= Len(getRanges(systemId))
        /\ a >= getRanges(systemId)[r + 1].min
        /\ a <= getRanges(systemId)[r + 1].max

\* the range gate of scanAllBasePointers drops, or lets through, the head
GateSkips ==
    /\ pc = "scan" /\ ~loc.scanning /\ pc' = "scan" /\ ~loc'.scanning
    /\ Len(sc.basePointers) > 0
    /\ sc'.basePointers = Tail(sc.basePointers)

GateScans == pc = "scan" /\ ~loc.scanning /\ pc' = "scan" /\ loc'.scanning

(* C14: the range gate skips a base pointer only if its address, as the    *)
(* input batches gave it, lies outside every enabled range of the system,  *)
(* and scans every base pointer whose address lies inside an enabled       *)
(* range.                                                                  *)
C14_RangeGate ==
    [][ /\ GateSkips => ~InEnabledRange(GateInputAddress)
        /\ GateScans => InEnabledRange(GateInputAddress) ]_vars


\* scanSingleBasePointer has returned for the base pointer under scan
SingleReturns ==
    /\ pc = "scan" /\ loc.scanning
    /\ pc' = "scan" /\ ~loc'.scanning

\* the target paths the chunks of the returning base pointer produced
ProducedTargetPaths == loc'.all.targetPaths

\* a step that starts the scan of another base pointer
StartsBasePointer ==
    /\ pc = "scan" /\ ~loc.scanning
    /\ pc' = "scan" /\ loc'.scanning

\* C15: with earlyOutTarget set, when the scan of one base pointer has
\* produced at least one target path the driver is told to stop, with or
\* without a structure or entry-point hit, and once told to stop the driver
\* starts no further base pointer.
C15_EarlyOutTargetStops ==
    [][ /\ (SingleReturns /\ sc.earlyOutTarget /\ Len(ProducedTargetPaths) > 0)
            => loc'.stopped
        /\ (StartsBasePointer => ~loc.stopped) ]_vars


\* the structure and entry-point hits of the base pointer scanned last
MatchesOfLastBasePointer == Len(loc.all.structures) + Len(loc.all.entryPoints)

\* C16: with earlyOutBasePointer set, once a base pointer has produced a
\* structure or entry-point hit the driver starts no further base pointer,
\* and what was streamed up to then stays counted in the output.
C16_EarlyOutBasePointerStops ==
    [][ /\ (StartsBasePointer /\ sc.earlyOutBasePointer)
            => MatchesOfLastBasePointer = 0
        /\ (pc = "scan" /\ pc' \in {"scan", "done"})
            => sc'.processedBaseAddrCount >= sc.processedBaseAddrCount ]_vars


\* what a caller reads of one result of processBatches
Findings(result) ==
    [ staticOutput   |-> result.staticOutput,
      streamedOutput |-> result.streamedOutput,
      structures     |-> result.structures ]

\* C17: processBatches called twice in succession on the same scanner and
\* the generator the controller attached to it, with the same collapse()
\* output and the same targets, returns the same staticOutput,
\* streamedOutput and structures, ids included.
C17_TwoRunsSameFindings ==
    (Len(ret) = 2 /\ sc.generator # <<>>) => Findings(ret[2]) = Findings(ret[1])


\* a step that hands an array to generateAchievements
HandsOver == Len(encoderInput') = Len(encoderInput) + 1

\* the array handed over by the step
Handed == encoderInput'[Len(encoderInput')]

\* the scanner as the streaming code leaves it (processBatches clears
\* processedBaseAddrs right after its final streamAchievements)
AfterStream == IF pc' = "done" THEN streamAchievements(sc) ELSE sc'

\* nothing of the array was in an array handed over earlier in this run,
\* and nothing of it is left in structures or entryPoints
HandedOnceAndRemoved ==
    /\ \A i \in 1..Len(encoderInput) : SeqSet(encoderInput[i]) \cap SeqSet(Handed) = {}
    /\ \A k \in 1..Len(Handed) :
          /\ ~SeqHas(AfterStream.structures, Handed[k])
          /\ ~SeqHas(AfterStream.entryPoints, Handed[k])

\* the roots of the array are in processedBaseAddrs
HandedRootsProcessed ==
    \A k \in 1..Len(Handed) : baseOf(Handed[k]) \in AfterStream.processedBaseAddrs

AllStaticStatic ==
    /\ lastOp.counts.staticStatics = lastOp.counts.totalNodes
    /\ lastOp.counts.staticNodes = 0
    /\ lastOp.counts.dynamicNodes = 0

\* structures holds no dynamic_list
NoDynamicList ==
    \A k \in 1..Len(sc.structures) : sc.structures[k].type # "dynamic_list"

\* entryPoints holds nothing pushed by detectDynamicLists (its entries carry
\* no type; those registered by the forward scan do)
NoDetectedEntryPoint ==
    \A k \in 1..Len(sc.entryPoints) : "type" \in DOMAIN sc.entryPoints[k]

\* C19: with a single batch every stored address classifies as StaticStatic,
\* and dynamic list detection records no dynamic_list and no entry point,
\* whether skipStickyPointers is set or not.
C19_SingleBatchNothingDynamic ==
    batchCount = 1 => (AllStaticStatic /\ NoDynamicList /\ NoDetectedEntryPoint)

(***************************************************************************)
(* C20: maxBreadth 0                                                       *)
(***************************************************************************)
\* what scanSingleBasePointer returns at the step where it returns
ReturnedBySingle == singleResult(sc, loc'.all)

\* C20: with maxBreadth configured as 0 the forward scanner returns no
\* finding for any base pointer: no structure hit, no entry-point hit and no
\* target path.
C20_ZeroBreadthNoFindings ==
    [][ (SingleReturns /\ sc.maxBreadth = 0) =>
            /\ Len(ReturnedBySingle.structures) = 0
            /\ Len(ReturnedBySingle.entryPoints) = 0
            /\ Len(ReturnedBySingle.targetPaths) = 0 ]_vars

(***************************************************************************)
(* C21: the static array                                                   *)
(***************************************************************************)
\* the six addresses as the scanner holds them
ArrayAddresses == {ToInt32W(ArrayBase + i) : i \in 0..5}

\* the run on the static array, at the end of the offset loop of
\* detectStaticLists
StaticArrayDetected ==
    /\ Len(batchesIn) = 1
    /\ batchesIn[1] = parseCSV(StaticArray, "n64")
    /\ pc = "static"
    /\ loc.offset > OFFSET_MAX

\* C21: the static array, through addBatch, collapse and static detection,
\* yields exactly one static_list with root 0x80000100, nodeCount 6, stride 4
\* and buildOffset 0, and the six addresses are in every target-node pool.
C21_StaticArrayOneList ==
    StaticArrayDetected =>
        /\ Len(sc.structures) = 1
        /\ sc.structures[1].type = "static_list"
        /\ sc.structures[1].root = ToInt32W(ArrayBase)
        /\ sc.structures[1].nodeCount = 6
        /\ sc.structures[1].stride = 1
        /\ sc.structures[1].buildOffset = 0
        /\ \A b \in 1..Len(sc.targetNodes) : ArrayAddresses \subseteq sc.targetNodes[b]

(***************************************************************************)
(* C22: ghost bridging on the static array                                 *)
(***************************************************************************)
\* the walk at offset 0 over the static array without 0x80000108, with a
\* ghost cap of at least 1 and a minimum chain length of at most 5, has
\* returned
ArrayWithGapWalked ==
    /\ pc = "walked"
    /\ loc.pool = <<WalkAddr(0), WalkAddr(1), WalkAddr(3), WalkAddr(4), WalkAddr(5)>>
    /\ loc.vm = walkValues({0, 1, 3, 4, 5}, 1, TRUE)
    /\ loc.offset = 0
    /\ loc.opts.maxGhostNodes >= 1
    /\ loc.opts.minChainLength <= 5
    /\ loc.opts.targetPool = <<>>

\* C22: that walk returns one chain with nodes [0x100, 0x104, 0x10C, 0x110,
\* 0x114] and ghosts [0x108].
C22_GhostBridged ==
    ArrayWithGapWalked =>
        /\ Len(loc.walked[1].chains) = 1
        /\ loc.walked[1].chains[1].nodes =
              <<WalkAddr(0), WalkAddr(1), WalkAddr(3), WalkAddr(4), WalkAddr(5)>>
        /\ loc.walked[1].chains[1].ghosts = <<WalkAddr(2)>>

(***************************************************************************)
(* C23: a system change resets everything                                  *)
(***************************************************************************)
\* C23: after a system change the preprocessor holds no batch, and the file
\* list no entry, of a file loaded before the change, in every interleaving
\* with the trims that were in flight.
C23_SystemChangeResets ==
    pc = "ui" =>
        /\ \A k \in 1..Len(loc.batchFiles) : loc.batchFiles[k].epoch = loc.epoch
        /\ \A k \in 1..Len(loc.files) : loc.files[k].epoch = loc.epoch

(***************************************************************************)
(* C29: batches and file slots                                             *)
(***************************************************************************)
\* the trimmed data of the file slots that have some, in slot order
RECURSIVE TrimmedInSlotOrder(_)
TrimmedInSlotOrder(td) ==
    IF td = <<>> THEN <<>>
    ELSE (IF HasData(Head(td)) THEN <<Head(td).data>> ELSE <<>>)
         \o TrimmedInSlotOrder(Tail(td))

\* C29: after any interleaving of uploads, trims and removeFile calls, batch k
\* of the preprocessor holds the data of the k-th file slot that has trimmed
\* data, and batchCount is the number of files with trimmed data (sessions
\* in which the system was picked once).
C29_BatchesFollowSlots ==
    (pc = "ui" /\ loc.epoch <= 1) =>
        /\ batchCount = Len(TrimmedInSlotOrder(loc.trimmedData))
        /\ batchesIn = TrimmedInSlotOrder(loc.trimmedData)

(***************************************************************************)
(* C24: the links of a returned chain                                      *)
(***************************************************************************)
\* a' follows a in a chain: directly, or over g >= 1 ghosts that are all
\* listed, counted from value(a) + offset in steps of offset
Linked(chain, a, b) ==
    LET expected == ValOf(loc.vm, a) + loc.offset
    IN  \/ b = expected
        \/ \E g \in 1..loc.opts.maxGhostNodes :
              /\ b = expected + g * loc.offset
              /\ \A k \in 0..(g - 1) : SeqHas(chain.ghosts, expected + k * loc.offset)

WellLinked(chain) ==
    /\ \A n \in 1..(Len(chain.nodes) - 1) : Linked(chain, chain.nodes[n], chain.nodes[n + 1])
    /\ \A k \in 1..Len(chain.ghosts) : ~SeqHas(loc.pool, chain.ghosts[k])

\* C24: in every chain walkChainsAtOffset returns, each node is followed by
\* value + offset or by the node g ghost steps further on, the g skipped
\* addresses value + offset + k * offset being listed as ghosts; no ghost is in
\* the pool.
C24_ChainsWellLinked ==
    pc = "walked" =>
        /\ \A c \in 1..Len(loc.walked[1].chains) : WellLinked(loc.walked[1].chains[c])
        /\ \A c \in 1..Len(loc.walked[1].entryPoints) :
              WellLinked(loc.walked[1].entryPoints[c])

\* a walk that returned a chain bridging two missing nodes in a row
C24_Witness ==
    /\ pc = "walked"
    /\ \E c \in 1..Len(loc.walked[1].chains) :
          LET chain == loc.walked[1].chains[c]
          IN  /\ Len(chain.ghosts) = 2
              /\ chain.ghosts[2] = chain.ghosts[1] + loc.offset
              /\ Len(chain.nodes) >= 2

(***************************************************************************)
(* C25: the precomputed and the on-the-fly bitmap                          *)
(***************************************************************************)
\* the combined bitmap of the on-the-fly path for a DFS state
onTheFlyBitmap(s, addrs, chunkStart) ==
    {bit \in Bits : \A b \in 1..Len(s.batches) :
        bit \in onTheFlyWord(s, addrs[b], b, chunkStart)}

\* C25: whenever a DFS step took its combined bitmap from the precomputed
\* store, that bitmap equals bit for bit the one the on-the-fly path computes
\* for the same state and chunk, also when the batches' current addresses
\* differ.
C25_PrecomputedMatchesOnTheFly ==
    (pc = "scan" /\ loc.dfs.step.kind = "advance" /\ loc.dfs.step.usedPrecomp) =>
        combinedBitmap(sc, loc.ctx, loc.dfs.step.from, loc.dfs.chunkStart)
            = onTheFlyBitmap(sc, loc.dfs.step.from, loc.dfs.chunkStart)

(***************************************************************************)
(* C26: the stride of a static list                                        *)
(***************************************************************************)
\* the most frequent gap between consecutive nodes, the smallest such gap
\* when several are equally frequent, one word for a chain of one node
smallestMostFrequentGap(nodes) ==
    IF Len(nodes) < 2 THEN 1
    ELSE LET gap(i)  == nodes[i + 1] - nodes[i]
             G       == 1..(Len(nodes) - 1)
             freq(i) == Cardinality({j \in G : gap(j) = gap(i)})
             top     == {i \in G : \A j \in G : freq(j) <= freq(i)}
             best    == CHOOSE i \in top : \A j \in top : gap(i) <= gap(j)
         IN  gap(best)

\* C26: every recorded static_list carries as stride the most frequent gap
\* between consecutive nodes of its chain, the smallest one on a tie.
C26_StrideIsSmallestMostFrequentGap ==
    \A k \in 1..Len(sc.structures) :
        sc.structures[k].type = "static_list" =>
            sc.structures[k].stride
                = smallestMostFrequentGap(sc.structures[k].addresses)

(***************************************************************************)
(* C27: the stage transitions of a successful run                          *)
(***************************************************************************)
\* active then completed for each of the five stages, in order
StageTransitionsInOrder ==
    << [stage |-> "static",     status |-> "active"],
       [stage |-> "static",     status |-> "completed"],
       [stage |-> "dynamic",    status |-> "active"],
       [stage |-> "dynamic",    status |-> "completed"],
       [stage |-> "precompute", status |-> "active"],
       [stage |-> "precompute", status |-> "completed"],
       [stage |-> "scan",       status |-> "active"],
       [stage |-> "scan",       status |-> "completed"],
       [stage |-> "generate",   status |-> "active"],
       [stage |-> "generate",   status |-> "completed"] >>

\* C27: when a run has finished without an error, the event sink has received
\* stage transitions for static, dynamic, precompute, scan and generate only,
\* in that order, for each stage 'active' and then 'completed', and no stage
\* became active before the one before it was completed.
C27_StageTransitionsInOrder ==
    pc = "finished" => loc.events = StageTransitionsInOrder

(***************************************************************************)
(* C28: entry points of the forward scan reach the encoder                 *)
(***************************************************************************)
\* an entry point registered by scanAllBasePointers
ScanRegistered(e) == "type" \in DOMAIN e /\ e.type = "entry_point"

\* e is in one of the arrays handed to the encoder
EncodedIn(input, e) == \E i \in 1..Len(input) : SeqHas(input[i], e)

listAddresses(x) ==
    SeqSet(x.addresses) \cup (IF "ghosts" \in DOMAIN x THEN SeqSet(x.ghosts) ELSE {})

\* two recorded lists of the same pool: two static lists, or two dynamic
\* lists of the same batch
SamePool(x, y) ==
    \/ x.type = "static_list" /\ y.type = "static_list"
    \/ /\ x.type = "dynamic_list" /\ y.type = "dynamic_list"
       /\ x.batchIdx = y.batchIdx

\* C30: no two recorded static lists share an address (node or ghost), and no
\* two recorded dynamic lists of the same batch share an address.
C30_RecordedListsDisjoint ==
    \A j, k \in 1..Len(sc.structures) :
        (j < k /\ SamePool(sc.structures[j], sc.structures[k])) =>
            listAddresses(sc.structures[j]) \cap listAddresses(sc.structures[k]) = {}

============================================================================
